---------------------------- MODULE Spec2Model ----------------------------
(***************************************************************************)
(* State-machine model of the Cloudflare Workers of jimmyshuixin/Home:     *)
(*   - the Firestore proxy   (src/unnamed/part_001, lines 1-326),          *)
(*   - the GitHub proxy      (src/worker/github-proxy.js),                 *)
(*   - the cache proxy       (src/unnamed/part_001, lines 460-554).        *)
(* Each worker is a separate deployment: one behaviour of Spec is the life *)
(* of one warm instance of one of them, serving requests that interleave   *)
(* at their await points.                                                  *)
(***************************************************************************)
EXTENDS Integers, Sequences, FiniteSets, TLC

(***************************************************************************)
(* Bounds of the model.                                                    *)
(***************************************************************************)
\* number of clock ticks a behaviour may take
MaxTicks == 2
\* number of tokens the authorization server issues in one behaviour
MaxExchanges == 2
\* number of documents the document store holds at most
MaxDocs == 2
\* one clock tick, in milliseconds (Date.now() is in milliseconds)
TickMs == 30 * 1000
\* the request slots of the instance: requests that may be in flight together
ReqIds == {1, 2}

(***************************************************************************)
(* JavaScript values.                                                      *)
(***************************************************************************)
\* a JS number that may be NaN
Num(v) == [nan |-> FALSE, v |-> v]
NaN == [nan |-> TRUE, v |-> 0]
\* a < b on JS numbers: false when either is NaN
JsLt(a, b) == ~a.nan /\ ~b.nan /\ a.v < b.v
\* a property of a parsed JSON body that may be missing (undefined)
Undef == [def |-> FALSE, v |-> 0]
Def(v) == [def |-> TRUE, v |-> v]
\* access_token values: null, undefined, or the opaque string of one issued
\* token, which stands for what the authorization server knows about it:
\* its number and the time (ms) at which it truly expires
NullTok == [kind |-> "null", id |-> 0, exp |-> 0]
UndefTok == [kind |-> "undefined", id |-> 0, exp |-> 0]
Tok(id, exp) == [kind |-> "string", id |-> id, exp |-> exp]
Truthy(t) == t.kind = "string"
\* a string property of a request body: missing, "" or a non-empty string
Absent == "<undefined>"
Falsy(s) == s \in {Absent, ""}

VARIABLES
    worker,       \* which worker script this instance runs
    env,          \* the secrets bound to the instance
    budget,       \* what this behaviour may spend: slots, ticks, documents
    now,          \* Date.now(), in ms
    accessToken,  \* part_001:29
    tokenExpiry,  \* part_001:30
    issued,       \* authorization server: number of tokens issued so far
    req,          \* Firestore proxy: the requests in flight, by slot
    guestbook,    \* document store: collection guestbook
    comments,     \* document store: blog_comments/p1/comments
    ghReq,        \* GitHub proxy: the requests in flight, by slot
    cpReq,        \* cache proxy: the requests in flight, by slot
    cache         \* cache proxy: caches.default, by target

vars == <<worker, env, budget, now, accessToken, tokenExpiry, issued, req, guestbook,
          comments, ghReq, cpReq, cache>>

minterVars == <<accessToken, tokenExpiry>>
storeVars == <<guestbook, comments>>
fsVars == <<accessToken, tokenExpiry, issued, req, guestbook, comments>>
ghVars == <<ghReq>>
cpVars == <<cpReq, cache>>

(***************************************************************************)
(* Firestore proxy: request inputs.                                        *)
(***************************************************************************)
Methods == {"GET", "POST", "OPTIONS", "PUT"}

\* url.pathname, as its sequence of characters
PMessages == <<"/", "m", "e", "s", "s", "a", "g", "e", "s">>
PCommentsPrefix == <<"/", "c", "o", "m", "m", "e", "n", "t", "s", "/">>
PCommentsP1 == PCommentsPrefix \o <<"p", "1">>
PCommentsEmpty == PCommentsPrefix
PCommentsDot == PCommentsPrefix \o <<"p", ".", "1">>
POther == <<"/", "x">>
Paths == {PMessages, PCommentsP1, PCommentsEmpty, PCommentsDot, POther}

\* the character class [a-zA-Z0-9_-]
IdChars ==
    {"a", "b", "c", "d", "e", "f", "g", "h", "i", "j", "k", "l", "m",
     "n", "o", "p", "q", "r", "s", "t", "u", "v", "w", "x", "y", "z",
     "A", "B", "C", "D", "E", "F", "G", "H", "I", "J", "K", "L", "M",
     "N", "O", "P", "Q", "R", "S", "T", "U", "V", "W", "X", "Y", "Z",
     "0", "1", "2", "3", "4", "5", "6", "7", "8", "9", "_", "-"}

\* path.match(/^\/comments\/([a-zA-Z0-9_-]+)$/): <<>> when there is no match,
\* else the captured postId
CommentMatch(path) ==
    LET n == Len(PCommentsPrefix)
    IN  IF /\ Len(path) > n
           /\ SubSeq(path, 1, n) = PCommentsPrefix
           /\ \A i \in (n + 1)..Len(path) : path[i] \in IdChars
        THEN SubSeq(path, n + 1, Len(path))
        ELSE <<>>

\* the request body as request.json() finds it
NoBody == [kind |-> "none", name |-> Absent, message |-> Absent]
BadJson == [kind |-> "invalid", name |-> Absent, message |-> Absent]
NullJson == [kind |-> "null", name |-> Absent, message |-> Absent]
Obj(n, m) == [kind |-> "object", name |-> n, message |-> m]
Bodies ==
    {BadJson, NullJson, Obj("Ana", "hi"), Obj(Absent, "hi"), Obj("", "hi"),
     Obj("Ana", Absent), Obj("Ana", "")}

(***************************************************************************)
(* Responses.                                                              *)
(***************************************************************************)
\* quotes is the Authorization token that the text of the body contains
\* (NullTok: none)
NoResp ==
    [status |-> 0, cors |-> FALSE, body |-> "none", list |-> <<>>,
     quotes |-> NullTok]
\* a faulty response built without the headers of createCorsHeaders
PlainResp(status, body, list) ==
    [status |-> status, cors |-> FALSE, body |-> body, list |-> list,
     quotes |-> NullTok]

\* new Response(body, {status, headers: createCorsHeaders()})
CorsResp(status, body, list) ==
    [status |-> status, cors |-> TRUE, body |-> body, list |-> list,
     quotes |-> NullTok]
\* part_001:324-326
handleOptions == CorsResp(200, "empty", <<>>)
\* part_001:78-81
NotFoundResp == CorsResp(404, "Not Found", <<>>)
\* part_001:83-90, the catch of fetch: the body carries error.message
WorkerErrorResp(message) == CorsResp(500, message, <<>>)
\* the text of an error reply of the store to a call that carried the token
\* auth: it may say anything, and it may quote the Authorization header
ErrorTexts(auth) == {NullTok, auth}
\* the same for an error thrown with `${message}: ${await response.text()}`,
\* part_001:100, 135, 204: the text of the upstream is part of the message
UpstreamErrorResp(message, text) ==
    [WorkerErrorResp(message) EXCEPT !.quotes = text]
\* the messages of the errors thrown at part_001:221, 295, 238, 100/135, 204
\* and by request.json() (112, 150) and the property read after it (113, 151)
MsgNotConfigured == "Service account credentials are not configured"
MsgKeyMalformed == "The FIREBASE_PRIVATE_KEY secret is malformed or invalid"
MsgTokenFailed == "Failed to fetch access token"
MsgGetFailed == "Firebase GET failed"
MsgPostFailed == "Firebase POST failed"
MsgSyntaxError == "SyntaxError"
MsgTypeError == "TypeError"
\* part_001:115 and 152
ValidationResp == CorsResp(400, "error", <<>>)

(***************************************************************************)
(* Firestore proxy: a request in flight.                                   *)
(***************************************************************************)
\* a fetch awaited by the request: the token exchange, a write to or a list
\* of a collection of the store, with its Authorization token and the time
\* at which it was sent
NoCall == [kind |-> "none", coll |-> "", auth |-> NullTok, ts |-> 0]

\* method, path and body are the request's own from the start; the model
\* draws them when the code first reads them (the method at part_001:42, all
\* of them in the router, or when the request ends before it), so that a
\* request waiting for its token is one state whatever it asks for.
\* token is the local of part_001:51, dropped with the request's frame;
\* upstream is response.status of the last answer of the store (0: none)
IdleReq ==
    [pc |-> "idle", method |-> "", path |-> <<>>, body |-> NoBody,
     token |-> NullTok, call |-> NoCall, resp |-> NoResp, upstream |-> 0,
     nMint |-> 0, nExch |-> 0, nWrite |-> 0, nList |-> 0]

Done(rq, resp) ==
    [rq EXCEPT !.pc = "done", !.resp = resp, !.call = NoCall,
               !.token = NullTok]

(***************************************************************************)
(* Document store (Firestore REST API), as the worker sees it.             *)
(***************************************************************************)
\* an undefined value where a timestamp is expected
NoTs == 0 - 1
\* the literal of part_001:174, two CJK characters that read "anonymous"
Anonymous == "anonymous"

\* obj[key] in JavaScript: undefined when the object has no such member
Member(obj, key, undefined) ==
    IF key \in DOMAIN obj THEN obj[key] ELSE undefined

\* a stored document: its resource name (collection, id) and typed fields,
\* as postToFirestore writes them, part_001:188-194
Doc(coll, id, name, message, ts) ==
    [name |-> <<coll, id>>,
     fields |-> [name |-> [stringValue |-> name],
                 message |-> [stringValue |-> message],
                 timestamp |-> [timestampValue |-> ts]]]

\* part_001:170-178; t is new Date() at the time of formatting
formatFirestoreDoc(doc, t) ==
    LET fields == Member(doc, "fields", <<>>)
    IN  [id |-> doc.name[Len(doc.name)],
         name |-> IF "name" \in DOMAIN fields
                  THEN Member(fields.name, "stringValue", Absent)
                  ELSE Anonymous,
         message |-> IF "message" \in DOMAIN fields
                     THEN Member(fields.message, "stringValue", Absent)
                     ELSE "",
         timestamp |-> IF "timestamp" \in DOMAIN fields
                       THEN Member(fields.timestamp, "timestampValue", NoTs)
                       ELSE t]

\* a faulty mapping that returns the documents in the reverse of the order
\* in which the store delivered them
FormatAllReversed(docs, t) ==
    [i \in 1..Len(docs) |-> formatFirestoreDoc(docs[Len(docs) + 1 - i], t)]

\* (data.documents || []).map(doc => formatFirestoreDoc(doc)), part_001:102, 139
FormatAll(docs, t) == [i \in 1..Len(docs) |-> formatFirestoreDoc(docs[i], t)]

\* the store's orderBy=timestamp: a before b (ties by document id)
Before(a, b, desc) ==
    LET ka == a.fields.timestamp.timestampValue
        kb == b.fields.timestamp.timestampValue
        ia == a.name[2]
        ib == b.name[2]
    IN  IF desc THEN ka > kb \/ (ka = kb /\ ia > ib)
        ELSE ka < kb \/ (ka = kb /\ ia < ib)

RECURSIVE Insert(_, _, _)
Insert(d, sorted, desc) ==
    IF sorted = <<>> THEN <<d>>
    ELSE IF Before(d, Head(sorted), desc) THEN <<d>> \o sorted
    ELSE <<Head(sorted)>> \o Insert(d, Tail(sorted), desc)

RECURSIVE OrderBy(_, _)
OrderBy(docs, desc) ==
    IF docs = <<>> THEN <<>>
    ELSE Insert(Head(docs), OrderBy(Tail(docs), desc), desc)

Collection(coll) == IF coll = "guestbook" THEN guestbook ELSE comments

\* a faulty list call that asks for ascending order in both collections
ListingAscending(coll) == OrderBy(Collection(coll), FALSE)

\* pageSize=50 of the list call of getMessages, part_001:98
PageSize == 50

\* the first page of a result: at most n documents (the worker never asks
\* for a second page)
FirstPage(docs, n) == IF Len(docs) <= n THEN docs ELSE SubSeq(docs, 1, n)

\* what a list call for coll returns on 200: part_001:98 (desc, one page of
\* 50), :129 (asc, no page size given)
Listing(coll) ==
    IF coll = "guestbook"
    THEN FirstPage(OrderBy(guestbook, TRUE), PageSize)
    ELSE OrderBy(comments, FALSE)

(***************************************************************************)
(* Firestore proxy: the handlers.                                          *)
(***************************************************************************)
\* getMessages / getComments up to their fetch: part_001:97-99, 128-130
SendList(rq, coll) ==
    [rq EXCEPT !.pc = "awaitList",
               !.call = [kind |-> "list", coll |-> coll, auth |-> rq.token,
                         ts |-> 0],
               !.nList = @ + 1]

\* handlePostMessage / handlePostComment up to the fetch of postToFirestore:
\* part_001:112-118, 149-156, 187-202
HandlePost(rq, coll, t) ==
    IF rq.body.kind \in {"invalid", "none"}
    THEN Done(rq, WorkerErrorResp(MsgSyntaxError))
    ELSE IF rq.body.kind = "null" THEN Done(rq, WorkerErrorResp(MsgTypeError))
    ELSE IF Falsy(rq.body.name) \/ Falsy(rq.body.message)
    THEN Done(rq, ValidationResp)
    ELSE [rq EXCEPT !.pc = "awaitWrite",
                    !.call = [kind |-> "write", coll |-> coll,
                              auth |-> rq.token, ts |-> t],
                    !.nWrite = @ + 1]

\* the router of fetch, part_001:53-81, entered with the token of line 51
Route(r1, t) ==
    LET commentMatch == CommentMatch(r1.path)
        rq == r1
    IN  IF rq.path = PMessages /\ rq.method = "GET"
        THEN SendList(r1, "guestbook")
        ELSE IF rq.path = PMessages /\ rq.method = "POST"
        THEN HandlePost(r1, "guestbook", t)
        ELSE IF commentMatch # <<>> /\ rq.method = "GET"
        THEN SendList(r1, "comments")
        ELSE IF commentMatch # <<>> /\ rq.method = "POST"
        THEN HandlePost(r1, "comments", t)
        ELSE Done(r1, NotFoundResp)

\* the requests a client may send: a body is read only by the POST handlers
Inputs ==
    {in \in [method : Methods, path : Paths, body : Bodies \cup {NoBody}] :
        in.body # NoBody <=>
            (in.method = "POST"
             /\ (in.path = PMessages \/ CommentMatch(in.path) # <<>>))}

WithInput(rq, in) ==
    [rq EXCEPT !.method = in.method, !.path = in.path, !.body = in.body]

\* tokenExpiry = Date.now() + (tokenData.expires_in - 60) * 1000, part_001:244
ExpiryOf(t, expires_in) ==
    IF expires_in.def THEN Num(t + (expires_in.v - 60) * 1000) ELSE NaN

\* the cache test of getAccessToken, part_001:215
CachedTokenValid == Truthy(accessToken) /\ JsLt(Num(now), tokenExpiry)

\* getAccessToken returns tok to line 51 of fetch
HaveToken(rq, tok) ==
    [IdleReq EXCEPT !.pc = "haveToken", !.token = tok, !.nMint = rq.nMint,
                    !.nExch = rq.nExch]

\* a faulty getAccessToken that skips the cache test of line 215 and always
\* goes to the authorization server
MinterEntryAlwaysExchanges(rq) ==
    IF ~env.FIREBASE_CLIENT_EMAIL \/ env.FIREBASE_PRIVATE_KEY # "valid"
    THEN Done(rq, WorkerErrorResp(MsgNotConfigured))
    ELSE [IdleReq EXCEPT !.pc = "awaitToken", !.nMint = rq.nMint,
                         !.nExch = rq.nExch + 1,
                         !.call = [kind |-> "exchange", coll |-> "",
                                   auth |-> NullTok, ts |-> now]]

\* getAccessToken from its call to its return or its first fetch,
\* part_001:214-235, with createJwt and importKey (255-296): the record of
\* the request after it
MinterEntry(rq) ==
    IF CachedTokenValid THEN HaveToken(rq, accessToken)
    ELSE IF ~env.FIREBASE_CLIENT_EMAIL \/ env.FIREBASE_PRIVATE_KEY = "absent"
    THEN Done(rq, WorkerErrorResp(MsgNotConfigured))
    ELSE IF env.FIREBASE_PRIVATE_KEY = "malformed"
    THEN Done(rq, WorkerErrorResp(MsgKeyMalformed))
    ELSE [IdleReq EXCEPT !.pc = "awaitToken", !.nMint = rq.nMint,
                         !.nExch = rq.nExch + 1,
                         !.call = [kind |-> "exchange", coll |-> "",
                                   auth |-> NullTok, ts |-> now]]

\* a new request takes the lowest free slot
FreeSlot(rs, r) ==
    /\ r <= budget.slots
    /\ rs[r].pc = "idle"
    /\ \A q \in ReqIds : q < r => rs[q].pc # "idle"

\* a request has a step to take that waits for nothing outside the
\* instance (it goes on after getAccessToken has returned, or its response
\* is on its way out): the event loop runs it before any other event
Responding ==
    \E r \in ReqIds :
        \/ req[r].pc \in {"haveToken", "done"}
        \/ ghReq[r].pc = "done"
        \/ cpReq[r].pc = "done"

\* a faulty fetch without the test of line 42: a preflight request goes to
\* getAccessToken like any other
StartNoPreflight(r) ==
    /\ worker = "firestore"
    /\ ~Responding
    /\ FreeSlot(req, r)
    /\ \E in \in Inputs :
         LET rq == WithInput(IdleReq, in)
             after == MinterEntry([rq EXCEPT !.nMint = @ + 1])
         IN  req' = [req EXCEPT ![r] =
                 IF in.method = "OPTIONS" /\ after.pc = "haveToken"
                 THEN Done([rq EXCEPT !.nMint = @ + 1], NotFoundResp)
                 ELSE after]
    /\ UNCHANGED <<worker, env, budget, now, accessToken, tokenExpiry, issued,
                   storeVars, ghVars, cpVars>>

\* fetch of the Firestore proxy from its entry to its first await that
\* leaves the worker, part_001:40-51
Start(r) ==
    /\ worker = "firestore"
    /\ ~Responding
    /\ FreeSlot(req, r)
    /\ \E in \in Inputs :
         LET rq == WithInput(IdleReq, in)
         IN  req' = [req EXCEPT ![r] =
                 IF in.method = "OPTIONS" THEN Done(rq, handleOptions)
                 ELSE MinterEntry([rq EXCEPT !.nMint = @ + 1])]
    /\ UNCHANGED <<worker, env, budget, now, accessToken, tokenExpiry, issued,
                   storeVars, ghVars, cpVars>>

\* true lifetimes (s) of the tokens the authorization server issues
Lifetimes == {30, 90}

\* the bodies of the 2xx answers of the authorization server, for a token
\* number id issued at time iat: access_token and expires_in, either of
\* which the body may lack
TokenReplies(id, iat) ==
    {[access_token |-> Tok(id, iat + life * 1000), expires_in |-> Def(life)] :
        life \in Lifetimes}
    \cup {[access_token |-> Tok(id, iat + 90 * 1000), expires_in |-> Undef],
          [access_token |-> UndefTok, expires_in |-> Def(90)]}

\* the times at which the authorization server may have issued the token of
\* an exchange sent at time sent whose answer is read at time t
IssueTimes(sent, t) == {i \in 0..MaxTicks : sent <= i * TickMs /\ i * TickMs <= t}

\* a faulty handling of a rejected exchange that forgets the cached token
\* before it throws
TokenRejectedClearsCache(r) ==
    /\ ~Responding
    /\ req[r].pc = "awaitToken"
    /\ \E in \in Inputs :
         /\ in.method # "OPTIONS"
         /\ req' = [req EXCEPT ![r] = Done(WithInput(@, in),
                                              WorkerErrorResp(MsgTokenFailed))]
    /\ accessToken' = NullTok
    /\ tokenExpiry' = Num(0)
    /\ UNCHANGED <<worker, env, budget, now, issued, storeVars, ghVars,
                   cpVars>>

\* a faulty getAccessToken that sends the exchange again when the
\* authorization server rejects it
TokenRejectedRetries(r) ==
    /\ ~Responding
    /\ req[r].pc = "awaitToken"
    /\ req' = [req EXCEPT ![r].nExch = @ + 1]
    /\ UNCHANGED <<worker, env, budget, now, accessToken, tokenExpiry, issued,
                   storeVars, ghVars, cpVars>>

\* the answer of the authorization server to the exchange of part_001:231
\* is not 2xx: getAccessToken throws (part_001:237-239), fetch answers 500
TokenRejected(r) ==
    /\ ~Responding
    /\ req[r].pc = "awaitToken"
    /\ \E in \in Inputs :
         /\ in.method # "OPTIONS"
         /\ req' = [req EXCEPT ![r] = Done(WithInput(@, in),
                                              WorkerErrorResp(MsgTokenFailed))]
    /\ UNCHANGED <<worker, env, budget, now, accessToken, tokenExpiry, issued,
                   storeVars, ghVars, cpVars>>

\* a faulty end of getAccessToken in which the first writer wins: an answer
\* that finds a valid token cached by another request is dropped and the
\* cached token is returned
TokenReplyFirstWriterWins(r) ==
    /\ ~Responding
    /\ req[r].pc = "awaitToken"
    /\ issued < MaxExchanges
    /\ issued' = issued + 1
    /\ \E i \in IssueTimes(req[r].call.ts, now) :
       \E tokenData \in TokenReplies(issued + 1, i * TickMs) :
         /\ accessToken' = IF CachedTokenValid THEN accessToken
                           ELSE tokenData.access_token
         /\ tokenExpiry' = IF CachedTokenValid THEN tokenExpiry
                           ELSE ExpiryOf(now, tokenData.expires_in)
         /\ req' = [req EXCEPT ![r] = HaveToken(@, accessToken')]
    /\ UNCHANGED <<worker, env, budget, now, storeVars, ghVars, cpVars>>

\* the answer of the authorization server is 2xx: the rest of
\* getAccessToken, part_001:241-247
TokenReply(r) ==
    /\ ~Responding
    /\ req[r].pc = "awaitToken"
    /\ issued < MaxExchanges
    /\ issued' = issued + 1
    /\ \E i \in IssueTimes(req[r].call.ts, now) :
       \E tokenData \in TokenReplies(issued + 1, i * TickMs) :
         /\ accessToken' = tokenData.access_token
         /\ tokenExpiry' = ExpiryOf(now, tokenData.expires_in)
         /\ req' = [req EXCEPT ![r] = HaveToken(@, accessToken')]
    /\ UNCHANGED <<worker, env, budget, now, storeVars, ghVars, cpVars>>

\* fetch goes on after line 51: the router and the handler it selects, up
\* to the handler's first fetch, part_001:53-81
RouteStep(r) ==
    /\ req[r].pc = "haveToken"
    /\ \E in \in Inputs :
         /\ in.method # "OPTIONS"
         /\ req' = [req EXCEPT ![r] = Route(WithInput(@, in), now)]
    /\ UNCHANGED <<worker, env, budget, now, accessToken, tokenExpiry, issued,
                   storeVars, ghVars, cpVars>>

\* the ids the store may give to a new document: it chooses them itself, in
\* no order (a document posted without an id gets a random one)
FreeIds ==
    (1..budget.docs)
        \ ({guestbook[i].name[2] : i \in 1..Len(guestbook)}
              \cup {comments[i].name[2] : i \in 1..Len(comments)})

\* the store answers the write of postToFirestore; on 2xx the handler goes
\* on to its list call: part_001:195-205, 118-120, 156-158
StoreWrite(r) ==
    /\ ~Responding
    /\ req[r].pc = "awaitWrite"
    /\ LET c == req[r].call
       IN  \/ \E id \in FreeIds :
              LET d == Doc(c.coll, id, req[r].body.name, req[r].body.message,
                           c.ts)
              IN  /\ guestbook' = IF c.coll = "guestbook"
                                  THEN Append(guestbook, d) ELSE guestbook
                  /\ comments' = IF c.coll = "comments"
                                 THEN Append(comments, d) ELSE comments
                  /\ req' = [req EXCEPT ![r] =
                         SendList([@ EXCEPT !.upstream = 200], c.coll)]
           \/ /\ \E text \in ErrorTexts(c.auth) :
                    req' = [req EXCEPT ![r] =
                        Done([@ EXCEPT !.upstream = 500],
                             UpstreamErrorResp(MsgPostFailed, text))]
              /\ UNCHANGED storeVars
    /\ UNCHANGED <<worker, env, budget, now, accessToken, tokenExpiry, issued,
                   ghVars, cpVars>>

\* a faulty end of the list call that takes every 404 of the store for an
\* empty collection, also for the guestbook
StoreListLenient(r) ==
    /\ ~Responding
    /\ req[r].pc = "awaitList"
    /\ LET c == req[r].call
           okStatus == IF req[r].method = "POST" THEN 201 ELSE 200
       IN  \E status \in {200, 404, 500} :
             req' = [req EXCEPT ![r] =
                 IF status = 200
                 THEN Done([@ EXCEPT !.upstream = status],
                           CorsResp(okStatus, "list",
                                    FormatAll(Listing(c.coll), now)))
                 ELSE IF status = 404
                 THEN Done([@ EXCEPT !.upstream = status],
                           CorsResp(okStatus, "list", <<>>))
                 ELSE Done([@ EXCEPT !.upstream = status],
                           WorkerErrorResp(MsgGetFailed))]
    /\ UNCHANGED <<worker, env, budget, now, accessToken, tokenExpiry, issued,
                   storeVars, ghVars, cpVars>>

\* the store answers a list call and the handler builds its response:
\* part_001:99-102 and 106-108 / 120-121, 130-139 and 143-145 / 158-159
StoreList(r) ==
    /\ ~Responding
    /\ req[r].pc = "awaitList"
    /\ LET c == req[r].call
           okStatus == IF req[r].method = "POST" THEN 201 ELSE 200
       IN  \E status \in {200, 404, 500}, text \in ErrorTexts(c.auth) :
             req' = [req EXCEPT ![r] =
                 IF status = 200
                 THEN Done([@ EXCEPT !.upstream = status],
                           CorsResp(okStatus, "list",
                                    FormatAll(Listing(c.coll), now)))
                 ELSE IF status = 404 /\ c.coll = "comments"
                 THEN Done([@ EXCEPT !.upstream = status],
                           CorsResp(okStatus, "list", <<>>))
                 ELSE Done([@ EXCEPT !.upstream = status],
                           UpstreamErrorResp(MsgGetFailed, text))]
    /\ UNCHANGED <<worker, env, budget, now, accessToken, tokenExpiry, issued,
                   storeVars, ghVars, cpVars>>

\* the response has been sent: the slot is free for the next request
Finish(r) ==
    /\ req[r].pc = "done"
    /\ req' = [req EXCEPT ![r] = IdleReq]
    /\ UNCHANGED <<worker, env, budget, now, accessToken, tokenExpiry, issued,
                   storeVars, ghVars, cpVars>>

\* time passes (the Firestore proxy is the only worker that reads the clock)
Tick ==
    /\ worker = "firestore"
    /\ ~Responding
    /\ now < budget.ticks * TickMs
    /\ now' = now + TickMs
    /\ UNCHANGED <<worker, env, budget, fsVars, ghVars, cpVars>>

(***************************************************************************)
(* GitHub proxy (src/worker/github-proxy.js).                              *)
(***************************************************************************)
GhMethods == {"GET", "OPTIONS"}
\* url.searchParams.get('username') and get('endpoint')
Usernames == {Absent, "", "octocat"}
Endpoints == {Absent, "", "stats", "pinned", "repos", "events", "bogus"}
\* the Authorization header of the inbound request
GhHeaders == {"none", "bearer client"}
\* `bearer ${token}` with the secret GITHUB_TOKEN, github-proxy.js:92, 209
GhBearer == "bearer GITHUB_TOKEN"

NoStats ==
    [publicRepos |-> 0, followers |-> 0, following |-> 0,
     contributions |-> 0, repoContributions |-> 0]

\* a response: status, the headers Access-Control-Allow-Origin (cors),
\* Cache-Control (sMaxAge in s, 0: none) and Link (a header of the upstream),
\* and the body: body names its kind or is the text itself, quotes is the
\* Authorization header that the text contains ("none": none), stats and
\* pinned are the JSON values
NoGhResp ==
    [status |-> 0, cors |-> FALSE, sMaxAge |-> 0, link |-> "none",
     body |-> "none", quotes |-> "none", stats |-> NoStats, pinned |-> <<>>]

\* new Response(text, {status, headers: corsHeaders()}), github-proxy.js:74-79
GhCorsResp(status, body) ==
    [NoGhResp EXCEPT !.status = status, !.cors = TRUE, !.body = body]

\* a fetch of the worker: the API, the method, the Authorization header and
\* the endpoint it serves
GhCall(api, method, endpoint) ==
    [api |-> api, method |-> method, auth |-> GhBearer, endpoint |-> endpoint]
NoGhCall == [api |-> "none", method |-> "", auth |-> "none", endpoint |-> ""]

\* data.data.user of the UserStats query, github-proxy.js:119-133
UserStats(r, fo, fg, c, rc) ==
    [repositories |-> r, followers |-> fo, following |-> fg,
     totalContributions |-> c, repositoriesContributedTo |-> rc]
StatsReplies == {UserStats(3, 1, 4, 15, 9), UserStats(0, 0, 0, 0, 0)}
NoUser == UserStats(0, 0, 0, 0, 0)

\* one node of pinnedItems, github-proxy.js:161-168; a repository without a
\* primary language has primaryLanguage null
NoLang == [name |-> "<null>", color |-> "<null>"]
Repo(i, lang) ==
    [name |-> i, owner |-> "octocat", description |-> "d", url |-> i,
     stars |-> i, forks |-> 0, primaryLanguage |-> lang]
JsLang == [name |-> "JavaScript", color |-> "#f1e05a"]
PinnedReplies ==
    {<<>>, <<Repo(1, JsLang)>>, <<Repo(2, NoLang), Repo(1, JsLang)>>,
     <<Repo(1, JsLang), Repo(2, NoLang), Repo(3, JsLang), Repo(4, JsLang),
       Repo(5, NoLang), Repo(6, JsLang)>>}

\* what the upstream answers to a fetch: kind "network" is a fetch that
\* rejects, "non2xx" a reply that is not ok, "errors" a GraphQL reply with an
\* errors member, "nouser" one whose data.user is null, "user" one with the
\* user, "rest" a reply of the REST API with its status, body and Link
\* header; quotes is the Authorization header that the body quotes, if any
GhReply(kind, status, text) ==
    [kind |-> kind, status |-> status, text |-> text, quotes |-> "none",
     link |-> "none", user |-> NoUser, nodes |-> <<>>]
NoGhReply == GhReply("none", 0, "none")
GhNetworkFailure == GhReply("network", 0, "none")
GraphQLFailures ==
    {GhNetworkFailure, GhReply("non2xx", 401, "Bad credentials"),
     [GhReply("non2xx", 401, "Bad credentials") EXCEPT !.quotes = GhBearer],
     GhReply("errors", 200, "errors"), GhReply("nouser", 200, "data")}
GraphQLReplies(endpoint) ==
    GraphQLFailures
        \cup (IF endpoint = "stats"
              THEN {[GhReply("user", 200, "data") EXCEPT !.user = u] :
                        u \in StatsReplies}
              ELSE {[GhReply("user", 200, "data") EXCEPT !.nodes = n] :
                        n \in PinnedReplies})
RestReplies ==
    {GhNetworkFailure,
     [GhReply("rest", 200, "[1, 2]") EXCEPT !.link = "next"],
     GhReply("rest", 403, "rate limit exceeded"),
     [GhReply("rest", 401, "Bad credentials") EXCEPT !.quotes = GhBearer],
     GhReply("rest", 404, "Not Found")}

\* reply is the answer of the upstream to the fetch of the request, call the
\* fetch itself (kept with the response)
IdleGhReq ==
    [pc |-> "idle", method |-> "", hdr |-> "none", username |-> Absent,
     endpoint |-> Absent, call |-> NoGhCall, reply |-> NoGhReply,
     resp |-> NoGhResp, nUp |-> 0]

GhDone(rq, resp) == [rq EXCEPT !.pc = "done", !.resp = resp]

\* s-maxage of the responses, github-proxy.js:148, 191, 221
PinnedMaxAge == 3600
\* a faulty stats response that is cacheable for the hour of the others
StatsMaxAgeOfPinned == PinnedMaxAge
StatsMaxAge == 43200
RestMaxAge == 3600

\* a faulty aggregation that takes followers for following and the other
\* way round
StatsOfSwapped(user) ==
    [publicRepos |-> user.repositories, followers |-> user.following,
     following |-> user.followers,
     contributions |-> user.totalContributions,
     repoContributions |-> user.repositoriesContributedTo]

\* github-proxy.js:140-146
StatsOf(user) ==
    [publicRepos |-> user.repositories, followers |-> user.followers,
     following |-> user.following,
     contributions |-> user.totalContributions,
     repoContributions |-> user.repositoriesContributedTo]

\* a faulty summary that reads name and color of primaryLanguage without
\* the test for null
SummaryOfNullLanguage(repo) ==
    [owner |-> repo.owner, repo |-> repo.name, link |-> repo.url,
     description |-> repo.description,
     language |-> repo.primaryLanguage.name,
     languageColor |-> repo.primaryLanguage.color,
     stars |-> repo.stars, forks |-> repo.forks]

\* github-proxy.js:180-189
SummaryOf(repo) ==
    [owner |-> repo.owner, repo |-> repo.name, link |-> repo.url,
     description |-> repo.description,
     language |-> IF repo.primaryLanguage # NoLang
                  THEN repo.primaryLanguage.name ELSE "Text",
     languageColor |-> IF repo.primaryLanguage # NoLang
                       THEN repo.primaryLanguage.color ELSE "#ededed",
     stars |-> repo.stars, forks |-> repo.forks]

PinnedOf(nodes) == [i \in 1..Len(nodes) |-> SummaryOf(nodes[i])]

\* the catch of handleRequest, github-proxy.js:63-66
GhFailedResp == GhCorsResp(502, "error")

\* a faulty handleRequest that looks at the username before it looks at the
\* secret
GhDispatchUsernameFirst(rq) ==
    LET endpoint == IF Falsy(rq.endpoint) THEN "pinned" ELSE rq.endpoint
    IN  IF Falsy(rq.username)
        THEN GhDone(rq, GhCorsResp(400, "error"))
        ELSE IF ~env.GITHUB_TOKEN
        THEN GhDone(rq, GhCorsResp(500, "error"))
        ELSE IF endpoint \in {"stats", "pinned"}
        THEN [rq EXCEPT !.pc = "awaitGraphQL",
                        !.call = GhCall("graphql", "POST", endpoint),
                        !.nUp = @ + 1]
        ELSE IF endpoint \in {"repos", "events"}
        THEN [rq EXCEPT !.pc = "awaitRest",
                        !.call = GhCall("rest", "GET", endpoint),
                        !.nUp = @ + 1]
        ELSE GhDone(rq, GhCorsResp(400, "error"))

\* handleRequest up to the fetch of the selected endpoint,
\* github-proxy.js:35-62 (with 89, 134, 174, 212)
GhDispatch(rq) ==
    LET endpoint == IF Falsy(rq.endpoint) THEN "pinned" ELSE rq.endpoint
    IN  IF ~env.GITHUB_TOKEN
        THEN GhDone(rq, GhCorsResp(500, "error"))
        ELSE IF Falsy(rq.username)
        THEN GhDone(rq, GhCorsResp(400, "error"))
        ELSE IF endpoint \in {"stats", "pinned"}
        THEN [rq EXCEPT !.pc = "awaitGraphQL",
                        !.call = GhCall("graphql", "POST", endpoint),
                        !.nUp = @ + 1]
        ELSE IF endpoint \in {"repos", "events"}
        THEN [rq EXCEPT !.pc = "awaitRest",
                        !.call = GhCall("rest", "GET", endpoint),
                        !.nUp = @ + 1]
        ELSE GhDone(rq, GhCorsResp(400, "error"))

GhStart(r) ==
    /\ ~Responding
    /\ worker = "github"
    /\ FreeSlot(ghReq, r)
    /\ \E m \in GhMethods, h \in GhHeaders, u \in Usernames, e \in Endpoints :
          ghReq' = [ghReq EXCEPT ![r] =
              GhDispatch([IdleGhReq EXCEPT !.method = m, !.hdr = h,
                                           !.username = u, !.endpoint = e])]
    /\ UNCHANGED <<worker, env, budget, now, fsVars, cpVars>>

\* fetchGraphQL from the answer of the upstream, and the rest of
\* fetchUserStats or fetchPinnedRepos: github-proxy.js:99-109, 135-148,
\* 175-191; what they throw is caught at 63-66
GhAfterGraphQL(rq, reply) ==
    IF reply.kind # "user" THEN GhDone(rq, GhFailedResp)
    ELSE IF rq.call.endpoint = "stats"
    THEN GhDone(rq, [GhCorsResp(200, "stats") EXCEPT
                        !.stats = StatsOf(reply.user),
                        !.sMaxAge = StatsMaxAge])
    ELSE GhDone(rq, [GhCorsResp(200, "pinned") EXCEPT
                        !.pinned = PinnedOf(reply.nodes),
                        !.sMaxAge = PinnedMaxAge])

\* the answer of the GraphQL API arrives
GhGraphQL(r) ==
    /\ ~Responding
    /\ ghReq[r].pc = "awaitGraphQL"
    /\ \E reply \in GraphQLReplies(ghReq[r].call.endpoint) :
          ghReq' = [ghReq EXCEPT ![r] =
              GhAfterGraphQL([@ EXCEPT !.reply = reply], reply)]
    /\ UNCHANGED <<worker, env, budget, now, fsVars, cpVars>>

\* a faulty proxyRestApi that tests response.ok as fetchGraphQL does and throws
\* on a reply that is not 2xx
GhAfterRestChecked(rq, reply) ==
    IF reply.kind = "network" \/ reply.status >= 300
    THEN GhDone(rq, GhFailedResp)
    ELSE GhDone(rq, [NoGhResp EXCEPT !.status = reply.status,
                                     !.body = reply.text,
                                     !.quotes = reply.quotes,
                                     !.link = reply.link,
                                     !.cors = TRUE,
                                     !.sMaxAge = RestMaxAge])

\* proxyRestApi from the answer of the upstream, github-proxy.js:212-223: the
\* response is the upstream's with two headers set; a fetch that rejects is
\* caught at 63-66
GhAfterRest(rq, reply) ==
    IF reply.kind = "network" THEN GhDone(rq, GhFailedResp)
    ELSE GhDone(rq, [NoGhResp EXCEPT !.status = reply.status,
                                     !.body = reply.text,
                                     !.quotes = reply.quotes,
                                     !.link = reply.link,
                                     !.cors = TRUE,
                                     !.sMaxAge = RestMaxAge])

\* the answer of the REST API arrives
GhRest(r) ==
    /\ ~Responding
    /\ ghReq[r].pc = "awaitRest"
    /\ \E reply \in RestReplies :
          ghReq' = [ghReq EXCEPT ![r] =
              GhAfterRest([@ EXCEPT !.reply = reply], reply)]
    /\ UNCHANGED <<worker, env, budget, now, fsVars, cpVars>>

GhFinish(r) ==
    /\ ghReq[r].pc = "done"
    /\ ghReq' = [ghReq EXCEPT ![r] = IdleGhReq]
    /\ UNCHANGED <<worker, env, budget, now, fsVars, cpVars>>

(***************************************************************************)
(* Cache proxy (src/unnamed/part_001:480-554).                             *)
(***************************************************************************)
CpMethods == {"GET", "OPTIONS"}
\* url.searchParams.get('target'): null, '', or a string that new URL()
\* accepts (it has a scheme) or rejects (it has none)
Target(scheme, rest) == [scheme |-> scheme, rest |-> rest]
NoTarget == Target("<null>", "<null>")
EmptyTarget == Target("", "")
RelativeTarget == Target("", "a.png")
TargetA == Target("https", "example.com/a.png")
TargetB == Target("https", "example.com/a.png?v=2")
\* another spelling of TargetA
TargetAUpper == Target("HTTPS", "example.com/a.png")
CpTargets ==
    {NoTarget, EmptyTarget, RelativeTarget, TargetA, TargetB, TargetAUpper}
\* the URL parser lowercases the scheme
Lower(scheme) == IF scheme = "HTTPS" THEN "https" ELSE scheme
\* a faulty key that drops the query string of the target
UrlWithoutQuery(t) == Target(Lower(t.scheme), "example.com/a.png")
\* the URL of the Request that cache.match, cache.put (part_001:510, 541) and
\* new Request (518) make of the target string: the key of the cache entry
Url(t) == Target(Lower(t.scheme), t.rest)
CacheKeys == {TargetA, TargetB}
\* the inbound request headers, forwarded to the origin (part_001:519)
CpHeaders == {"h1", "h2"}

\* !targetUrl, part_001:495
TargetMissing(t) == t \in {NoTarget, EmptyTarget}
\* new URL(targetUrl) throws, part_001:499-504
TargetMalformed(t) == t.scheme = ""

\* a response: of is the URL the origin answered for and hdr the request
\* headers it answered to, when it comes from the origin
NoCpResp ==
    [status |-> 0, cors |-> FALSE, tag |-> "none", body |-> "none",
     hdr |-> "none", of |-> NoTarget]
NoEntry == NoCpResp

\* put is the response handed to ctx.waitUntil(cache.put(..)) and not yet
\* written: the request's execution context lives until it is.  The code
\* never reads the method and reads the headers only to forward them
\* (part_001:519): the model draws the headers there and the method with the
\* response.
IdleCpReq ==
    [pc |-> "idle", method |-> "", target |-> NoTarget, hdr |-> "none",
     resp |-> NoCpResp, put |-> NoEntry,
     nMatch |-> 0, nFetch |-> 0, nPut |-> 0]

CpDone(rq, m, resp) ==
    [rq EXCEPT !.pc = "done", !.method = m, !.resp = resp]

\* part_001:496 and 503: new Response(text, {status: 400})
CpBadRequest == [NoCpResp EXCEPT !.status = 400, !.body = "error"]
\* an exception leaves fetch (there is no try around part_001:510-526): the
\* runtime answers with its own error page
CpUncaught == [NoCpResp EXCEPT !.status = 500, !.body = "exception"]

\* a faulty validation that tests only the presence of the target and goes
\* to the cache with whatever string it is given
CpValidatePresence(rq, m) ==
    IF TargetMissing(rq.target) THEN CpDone(rq, m, CpBadRequest)
    ELSE [rq EXCEPT !.pc = "awaitMatch", !.nMatch = @ + 1]

\* fetch of the cache proxy up to cache.match, part_001:488-510
CpValidate(rq, m) ==
    IF TargetMissing(rq.target) THEN CpDone(rq, m, CpBadRequest)
    ELSE IF TargetMalformed(rq.target) THEN CpDone(rq, m, CpBadRequest)
    ELSE [rq EXCEPT !.pc = "awaitMatch", !.nMatch = @ + 1]

CpStart(r) ==
    /\ ~Responding
    /\ worker = "cache"
    /\ FreeSlot(cpReq, r)
    /\ \E m \in CpMethods, t \in CpTargets :
          cpReq' = [cpReq EXCEPT ![r] =
              CpValidate([IdleCpReq EXCEPT !.target = t], m)]
    /\ UNCHANGED <<worker, env, budget, now, fsVars, ghVars, cache>>

\* cache.match answers: a hit is returned tagged HIT (part_001:542-550), a
\* miss goes on to the origin (part_001:512-526)
CpMatch(r) ==
    /\ ~Responding
    /\ cpReq[r].pc = "awaitMatch"
    /\ LET response == cache[Url(cpReq[r].target)]
       IN  \E m \in CpMethods, h \in CpHeaders :
             cpReq' = [cpReq EXCEPT ![r] =
               IF response # NoEntry
               THEN CpDone([@ EXCEPT !.hdr = h], m,
                           [response EXCEPT !.tag = "HIT"])
               ELSE [@ EXCEPT !.pc = "awaitFetch", !.hdr = h,
                              !.nFetch = @ + 1]]
    /\ UNCHANGED <<worker, env, budget, now, fsVars, ghVars, cache>>

\* the answers of the origin to the fetch of part_001:526 (206 when the
\* forwarded headers ask for a range)
OriginAnswers ==
    {[status |-> 200, body |-> "v1"], [status |-> 200, body |-> "v2"],
     [status |-> 404, body |-> "not found"], [status |-> 206, body |-> "part"],
     [status |-> 503, body |-> "unavailable"]}

\* the origin answers; the response gets the CORS headers and the MISS tag,
\* a copy is handed to ctx.waitUntil(cache.put(..)) and the response is
\* returned: part_001:526-541, 552
CpFetch(r) ==
    /\ ~Responding
    /\ cpReq[r].pc = "awaitFetch"
    /\ \E m \in CpMethods :
       \/ cpReq' = [cpReq EXCEPT ![r] = CpDone(@, m, CpUncaught)]
       \/ \E origin \in OriginAnswers :
            LET response ==
                   [status |-> origin.status, cors |-> TRUE, tag |-> "MISS",
                    body |-> origin.body, hdr |-> cpReq[r].hdr,
                    of |-> Target(Lower(cpReq[r].target.scheme),
                                  cpReq[r].target.rest)]
            IN  cpReq' = [cpReq EXCEPT ![r] =
                    CpDone([@ EXCEPT !.put = response, !.nPut = @ + 1], m,
                           response)]
    /\ UNCHANGED <<worker, env, budget, now, fsVars, ghVars, cache>>

\* cache.put stores the response, unless it is a partial response: then the
\* promise rejects with a TypeError (Cache API)
PutAccepted(response) == response.status # 206

\* the cache.put handed to ctx.waitUntil settles, part_001:541; nothing
\* handles its rejection
CpPut(r) ==
    /\ ~Responding
    /\ cpReq[r].pc = "background"
    /\ cache' = IF PutAccepted(cpReq[r].put)
                THEN [cache EXCEPT ![Url(cpReq[r].target)] = cpReq[r].put]
                ELSE cache
    /\ cpReq' = [cpReq EXCEPT ![r] = IdleCpReq]
    /\ UNCHANGED <<worker, env, budget, now, fsVars, ghVars>>

\* the edge cache drops an entry (its TTL has passed, or it was evicted)
CpEvict ==
    /\ ~Responding
    /\ \E t \in CacheKeys :
          /\ cache[t] # NoEntry
          /\ cache' = [cache EXCEPT ![t] = NoEntry]
    /\ UNCHANGED <<worker, env, budget, now, fsVars, ghVars, cpReq>>

\* the response has been sent; the context lives on while it has a
\* cache.put to complete
CpFinish(r) ==
    /\ cpReq[r].pc = "done"
    /\ LET rq == cpReq[r]
       IN  cpReq' = [cpReq EXCEPT ![r] =
               IF rq.put = NoEntry THEN IdleCpReq
               ELSE [IdleCpReq EXCEPT !.pc = "background",
                                      !.target = rq.target, !.put = rq.put]]
    /\ UNCHANGED <<worker, env, budget, now, fsVars, ghVars, cache>>

(***************************************************************************)
(* The instance.                                                           *)
(***************************************************************************)
Env(email, key, gh) ==
    [FIREBASE_CLIENT_EMAIL |-> email, FIREBASE_PRIVATE_KEY |-> key,
     GITHUB_TOKEN |-> gh]

Budget(slots, ticks, docs) == [slots |-> slots, ticks |-> ticks, docs |-> docs]

\* A behaviour of the Firestore proxy with usable credentials is explored
\* under one of these budgets: requests one at a time with the clock and the
\* store, or two requests at a time with either the clock or the store.
FirestoreBudgets ==
    {Budget(1, MaxTicks, MaxDocs), Budget(2, MaxTicks, 0),
     Budget(2, 0, MaxDocs)}

\* the workers, the secrets a deployment may be configured with, and the
\* budget of the behaviour
Deployments ==
    {<<"firestore", Env(TRUE, "valid", FALSE), b>> : b \in FirestoreBudgets}
    \cup {<<"firestore", Env(e, k, FALSE), Budget(2, 0, 0)>> :
            e \in BOOLEAN, k \in {"malformed", "absent"}}
    \cup {<<"firestore", Env(FALSE, "valid", FALSE), Budget(2, 0, 0)>>}
    \cup {<<"github", Env(FALSE, "absent", g), Budget(2, 0, 0)>> :
            g \in BOOLEAN}
    \cup {<<"cache", Env(FALSE, "absent", FALSE), Budget(2, 0, 0)>>}

Init ==
    /\ \E d \in Deployments : worker = d[1] /\ env = d[2] /\ budget = d[3]
    /\ now = 0
    /\ accessToken = NullTok
    /\ tokenExpiry = Num(0)
    /\ issued = 0
    /\ req = [r \in ReqIds |-> IdleReq]
    /\ guestbook = <<>>
    /\ comments = <<>>
    /\ ghReq = [r \in ReqIds |-> IdleGhReq]
    /\ cpReq = [r \in ReqIds |-> IdleCpReq]
    /\ cache = [t \in CacheKeys |-> NoEntry]

Next ==
    \/ \E r \in ReqIds : Start(r)
    \/ \E r \in ReqIds : TokenRejected(r)
    \/ \E r \in ReqIds : TokenReply(r)
    \/ \E r \in ReqIds : RouteStep(r)
    \/ \E r \in ReqIds : StoreWrite(r)
    \/ \E r \in ReqIds : StoreList(r)
    \/ \E r \in ReqIds : Finish(r)
    \/ Tick
    \/ \E r \in ReqIds : GhStart(r)
    \/ \E r \in ReqIds : GhGraphQL(r)
    \/ \E r \in ReqIds : GhRest(r)
    \/ \E r \in ReqIds : GhFinish(r)
    \/ \E r \in ReqIds : CpStart(r)
    \/ \E r \in ReqIds : CpMatch(r)
    \/ \E r \in ReqIds : CpFetch(r)
    \/ \E r \in ReqIds : CpPut(r)
    \/ CpEvict
    \/ \E r \in ReqIds : CpFinish(r)

Spec == Init /\ [][Next]_vars

\* The cache proxy alone, with its scheduling: a response that is ready is
\* sent (the event loop runs the step), and a cache.put handed to
\* ctx.waitUntil settles although other requests keep arriving (the runtime
\* keeps the context alive until the promise settles).
CacheInit == Init /\ worker = "cache"

CacheNext ==
    \/ \E r \in ReqIds : CpStart(r)
    \/ \E r \in ReqIds : CpMatch(r)
    \/ \E r \in ReqIds : CpFetch(r)
    \/ \E r \in ReqIds : CpPut(r)
    \/ CpEvict
    \/ \E r \in ReqIds : CpFinish(r)

CacheSpec ==
    /\ CacheInit
    /\ [][CacheNext]_vars
    /\ \A r \in ReqIds : WF_vars(CpFinish(r)) /\ SF_vars(CpPut(r))

(***************************************************************************)
(* Properties of the Credential Minter (getAccessToken).                   *)
(***************************************************************************)
\* request r calls getAccessToken in this step (part_001:51)
MinterCalled(r) == req[r].pc = "idle" /\ req'[r].nMint = 1
\* the call of request r that went to the authorization server ends in this
\* step: it returns (haveToken) or throws (done)
ExchangeEnds(r) == req[r].pc = "awaitToken" /\ req'[r].pc # "awaitToken"
CredentialsUsable ==
    env.FIREBASE_CLIENT_EMAIL /\ env.FIREBASE_PRIVATE_KEY = "valid"
\* the expires_in values a 2xx answer may carry
ExpiresIn == {Def(life) : life \in Lifetimes} \cup {Undef}

\* C1 (amended): a call made while a token string is cached and
\* now < tokenExpiry performs no exchange, returns the cached token and
\* leaves the cache as it is.  A call made with no such token, with the
\* credentials usable, performs exactly one exchange.  When that exchange is
\* rejected the cache is unchanged; when it is answered 2xx, tokenExpiry
\* becomes Date.now() + (expires_in - 60) * 1000 at the time the answer is
\* processed (NaN without expires_in), which is strictly greater than a
\* previous tokenExpiry that had passed only if expires_in > 60.
C1_TokenReuse ==
    [][\A r \in ReqIds :
        /\ MinterCalled(r) /\ Truthy(accessToken)
              /\ JsLt(Num(now), tokenExpiry)
           => /\ req'[r].pc = "haveToken"
              /\ req'[r].nExch = 0
              /\ req'[r].token = accessToken
              /\ UNCHANGED <<accessToken, tokenExpiry, issued>>
        /\ MinterCalled(r) /\ CredentialsUsable
              /\ ~(Truthy(accessToken) /\ JsLt(Num(now), tokenExpiry))
           => /\ req'[r].pc = "awaitToken"
              /\ req'[r].nExch = 1
              /\ UNCHANGED <<accessToken, tokenExpiry, issued>>
        /\ ExchangeEnds(r)
           => /\ req'[r].nExch = 1
              /\ \/ /\ req'[r].pc = "done"
                    /\ UNCHANGED <<accessToken, tokenExpiry, issued>>
                 \/ /\ req'[r].pc = "haveToken"
                    /\ issued' = issued + 1
                    /\ \E e \in ExpiresIn :
                         /\ tokenExpiry' = ExpiryOf(now, e)
                         /\ (e.def /\ e.v > 60 /\ ~tokenExpiry.nan
                               /\ tokenExpiry.v <= now)
                            => JsLt(tokenExpiry, tokenExpiry')
    ]_vars

\* requests served one at a time: a second exchange was made after the
\* first token's cached lifetime had passed and advanced tokenExpiry, and
\* the call after it is answered from the cache
C1_Witness ==
    /\ budget.slots = 1
    /\ issued = 2
    /\ tokenExpiry = Num(2 * TickMs)
    /\ req[1].pc = "haveToken"
    /\ req[1].nExch = 0
    /\ req[1].token = accessToken
    /\ accessToken.id = 2

\* C1 as stated: with calls that do not overlap, a call within the cached
\* lifetime performs no exchange and returns the cached token, and a call
\* at or after the cached expiry performs exactly one exchange and leaves
\* tokenExpiry strictly greater than it was.
C1_AsStated ==
    [][\A r \in ReqIds :
        (budget.slots = 1 /\ CredentialsUsable) =>
        /\ MinterCalled(r) /\ Truthy(accessToken)
              /\ JsLt(Num(now), tokenExpiry)
           => /\ req'[r].pc = "haveToken"
              /\ req'[r].nExch = 0
              /\ req'[r].token = accessToken
        /\ MinterCalled(r)
              /\ ~(Truthy(accessToken) /\ JsLt(Num(now), tokenExpiry))
           => req'[r].pc = "awaitToken" /\ req'[r].nExch = 1
        /\ ExchangeEnds(r) => JsLt(tokenExpiry, tokenExpiry')
    ]_vars

\* C2: in every state in which getAccessToken has just returned a token to
\* a request, the token's true expiry (the time the authorization server
\* issued it plus the lifetime it declared) is at least 60 s away.
C2_SafetyMargin ==
    \A r \in ReqIds :
        (req[r].pc = "haveToken" /\ Truthy(req[r].token))
            => req[r].token.exp - now >= 60 * 1000

\* C3: a step in which a call of getAccessToken throws (credentials not
\* configured, private key malformed, exchange rejected) leaves accessToken
\* and tokenExpiry as they were, as does the step that sends the exchange;
\* the request is answered 500 with the message of the error and holds no
\* token.
MinterErrors == {MsgNotConfigured, MsgKeyMalformed, MsgTokenFailed}
MinterThrows(r) ==
    /\ MinterCalled(r) \/ ExchangeEnds(r)
    /\ req'[r].pc = "done"
C3_FailureCachesNothing ==
    [][\A r \in ReqIds :
        /\ MinterThrows(r)
           => /\ UNCHANGED <<accessToken, tokenExpiry>>
              /\ req'[r].resp.status = 500
              /\ req'[r].resp.body \in MinterErrors
              /\ req'[r].token = NullTok
        /\ (MinterCalled(r) /\ req'[r].pc = "awaitToken")
           => UNCHANGED <<accessToken, tokenExpiry>>
        /\ (MinterCalled(r) /\ ~CredentialsUsable
              /\ ~(Truthy(accessToken) /\ JsLt(Num(now), tokenExpiry)))
           => MinterThrows(r) /\ req'[r].nExch = 0
    ]_vars

\* a token is cached, the exchange of a later call has been rejected, and
\* the cache still holds the pair of the first exchange
C3_Witness ==
    \E r \in ReqIds :
        /\ req[r].pc = "done"
        /\ req[r].resp = WorkerErrorResp(MsgTokenFailed)
        /\ req[r].nExch = 1
        /\ issued = 1
        /\ accessToken.id = 1
        /\ ~JsLt(Num(now), tokenExpiry)

\* C4: a request that finds no valid cached token while the exchange of
\* another request is in flight sends an exchange of its own, and no request
\* sends more than one.  The step in which an exchange is answered 2xx is
\* the only kind of step that changes accessToken or tokenExpiry; it writes
\* both from the one answer it processes, whatever is cached by then, and
\* returns the token of that answer to its request: the cached pair is
\* always that of the answer processed last.
OtherExchange(r) == \E q \in ReqIds \ {r} : req[q].pc = "awaitToken"
C4_RefreshRace ==
    [][/\ \A r \in ReqIds :
           /\ req'[r].nExch <= 1
           /\ (MinterCalled(r) /\ OtherExchange(r) /\ CredentialsUsable
                  /\ ~(Truthy(accessToken) /\ JsLt(Num(now), tokenExpiry)))
              => /\ req'[r].pc = "awaitToken"
                 /\ req'[r].nExch = 1
                 /\ req'[r].call.kind = "exchange"
           /\ (ExchangeEnds(r) /\ req'[r].pc = "haveToken")
              => /\ req'[r].nExch = 1
                 /\ req'[r].token = accessToken'
                 /\ \E i \in 0..MaxTicks :
                    \E tokenData \in TokenReplies(issued + 1, i * TickMs) :
                       /\ accessToken' = tokenData.access_token
                       /\ tokenExpiry' = ExpiryOf(now, tokenData.expires_in)
       /\ (accessToken' # accessToken \/ tokenExpiry' # tokenExpiry)
          => \E r \in ReqIds : ExchangeEnds(r) /\ req'[r].pc = "haveToken"
    ]_vars

\* two requests found no valid cached token at the same time; the second has
\* completed its exchange and holds the token it cached, the first is still
\* waiting for the answer to its own
C4_Witness ==
    /\ req[1].pc = "awaitToken"
    /\ req[1].nExch = 1
    /\ req[2].pc = "haveToken"
    /\ req[2].nExch = 1
    /\ req[2].token = accessToken
    /\ Truthy(accessToken)
    /\ JsLt(Num(now), tokenExpiry)

(***************************************************************************)
(* Properties of the requests.                                             *)
(***************************************************************************)
\* C5: a step that sends a call to the document store (a list or a write)
\* sends it with the token that is cached at that moment.
StoreCallSent(r) ==
    req'[r].call.kind \in {"list", "write"} /\ req'[r].call # req[r].call
C5_CallsCarryCachedToken ==
    [][\A r \in ReqIds :
        StoreCallSent(r) => req'[r].call.auth = accessToken']_vars

\* C6: a request of the Firestore proxy whose method is OPTIONS, whatever
\* its path and whatever the credentials, is answered in the step that
\* receives it, with status 200, the CORS headers and an empty body; it has
\* called neither getAccessToken nor the authorization server nor the
\* store, and accessToken and tokenExpiry are unchanged.
Received(r) == req[r].pc = "idle" /\ req'[r].pc # "idle"
C6_Preflight ==
    [][\A r \in ReqIds :
        /\ (Received(r) /\ req'[r].method = "OPTIONS")
           => /\ req'[r].pc = "done"
              /\ UNCHANGED <<accessToken, tokenExpiry, issued, storeVars>>
        /\ (req'[r].pc = "done" /\ req'[r].method = "OPTIONS")
           => /\ req'[r].resp = [status |-> 200, cors |-> TRUE,
                                  body |-> "empty", list |-> <<>>,
                                  quotes |-> NullTok]
              /\ req'[r].nMint = 0
              /\ req'[r].nExch = 0
              /\ req'[r].nWrite = 0
              /\ req'[r].nList = 0
              /\ req'[r].call = NoCall
    ]_vars

\* a preflight request for an unrouted path has been answered by a worker
\* whose credentials are not configured
C6_Witness ==
    /\ worker = "firestore"
    /\ ~env.FIREBASE_CLIENT_EMAIL
    /\ env.FIREBASE_PRIVATE_KEY = "absent"
    /\ req[1].pc = "done"
    /\ req[1].method = "OPTIONS"
    /\ req[1].path = POther
    /\ req[1].resp = handleOptions
    /\ accessToken = NullTok

\* C7: a request of the GitHub proxy or of the cache proxy whose method is
\* OPTIONS has made no call to the repository API, no cache read, no origin
\* fetch and no cache write.
C7_PreflightReachesNoAdapter ==
    \A r \in ReqIds :
        /\ ghReq[r].method = "OPTIONS" => ghReq[r].nUp = 0
        /\ (cpReq[r].pc = "done" /\ cpReq[r].method = "OPTIONS")
           => /\ cpReq[r].nMatch = 0
              /\ cpReq[r].nFetch = 0
              /\ cpReq[r].nPut = 0

\* the routes of the Firestore proxy, part_001:56-75
RouteMatches(method, path) ==
    /\ method \in {"GET", "POST"}
    /\ path = PMessages \/ CommentMatch(path) # <<>>
Answered(r) == req[r].pc = "done"

\* C8: a POST to /messages or /comments/{postId} whose JSON body has no name
\* or no message, or an empty one, is answered 400 and has sent no write to
\* the store.
C8_Validation ==
    \A r \in ReqIds :
        (/\ Answered(r)
         /\ req[r].method = "POST"
         /\ RouteMatches("POST", req[r].path)
         /\ req[r].body.kind = "object"
         /\ Falsy(req[r].body.name) \/ Falsy(req[r].body.message))
        => req[r].resp.status = 400 /\ req[r].nWrite = 0

\* C9: a POST to /messages or /comments/{postId} whose body is not JSON or
\* is the JSON value null, received by a worker whose getAccessToken has
\* returned, is answered 400 and has sent no write to the store.
C9_MalformedBody ==
    \A r \in ReqIds :
        (/\ Answered(r)
         /\ req[r].method = "POST"
         /\ RouteMatches("POST", req[r].path)
         /\ req[r].body.kind \in {"invalid", "null"}
         /\ req[r].resp.body \notin MinterErrors)
        => req[r].resp.status = 400 /\ req[r].nWrite = 0

\* C10: a request other than OPTIONS whose method and path match no route
\* is answered 404 and has called neither getAccessToken, nor the
\* authorization server, nor the store.
C10_RouteNotFound ==
    \A r \in ReqIds :
        (/\ Answered(r)
         /\ req[r].method # "OPTIONS"
         /\ ~RouteMatches(req[r].method, req[r].path))
        => /\ req[r].resp.status = 404
           /\ req[r].nMint = 0
           /\ req[r].nExch = 0
           /\ req[r].nWrite = 0
           /\ req[r].nList = 0

(***************************************************************************)
(* Properties of the responses.                                            *)
(***************************************************************************)
\* C11: every response of the Firestore proxy and of the GitHub proxy,
\* whatever its status, carries Access-Control-Allow-Origin.
C11_CorsEverywhere ==
    \A r \in ReqIds :
        /\ req[r].pc = "done" => req[r].resp.cors
        /\ ghReq[r].pc = "done" => ghReq[r].resp.cors

\* the catch of the Firestore proxy has answered 500 to a request whose
\* list call the store refused
C11_Witness ==
    \E r \in ReqIds :
        /\ req[r].pc = "done"
        /\ req[r].resp.status = 500
        /\ req[r].resp.body = MsgGetFailed
        /\ req[r].nList = 1
        /\ req[r].resp.cors

\* C12: every response of the cache proxy (the 400 for a missing or
\* malformed target, a MISS response, a response served from the cache)
\* carries Access-Control-Allow-Origin.
C12_CacheProxyCors ==
    \A r \in ReqIds :
        (/\ cpReq[r].pc = "done"
         /\ cpReq[r].resp.status = 400 \/ cpReq[r].resp.tag \in {"MISS", "HIT"})
        => cpReq[r].resp.cors

(***************************************************************************)
(* Properties of the cache proxy.                                          *)
(***************************************************************************)
\* request r has been answered from the origin and its response has been
\* returned to the client; its cache.put has not settled yet
MissReturned(r) == cpReq[r].pc = "background"

\* C13: once the MISS response for a target has been returned to the
\* client, the cache holds that response for the target, so that a request
\* for the same target issued at that moment is answered from the cache
\* (HIT) with the body of the MISS response.
C13_HitAfterMiss ==
    \A r \in ReqIds :
        MissReturned(r) => cache[Url(cpReq[r].target)] = cpReq[r].put

\* C14: after a MISS response for a target has been returned to the client
\* (which happens before its cache write has completed), the cache
\* eventually holds an entry for that target.
C14_WriteCompletes ==
    \A r \in ReqIds : \A t \in CacheKeys :
        (MissReturned(r) /\ Url(cpReq[r].target) = t) ~> (cache[t] # NoEntry)

\* C15: a request whose target is missing (null or '') or is not an
\* absolute URL is answered in the step that receives it, with status 400;
\* it has made no cache lookup, no origin fetch and no cache write, and the
\* cache is as it was.
CpReceived(r) == cpReq[r].pc = "idle" /\ cpReq'[r].pc # "idle"
BadTargets == {NoTarget, EmptyTarget, RelativeTarget}
C15_TargetValidation ==
    [][\A r \in ReqIds :
        (CpReceived(r) /\ cpReq'[r].target \in BadTargets)
        => /\ cpReq'[r].pc = "done"
           /\ cpReq'[r].resp.status = 400
           /\ cpReq'[r].resp.tag = "none"
           /\ cpReq'[r].nMatch = 0
           /\ cpReq'[r].nFetch = 0
           /\ cpReq'[r].nPut = 0
           /\ cpReq'[r].put = NoEntry
           /\ cache' = cache
    ]_vars

\* a request with a relative target has been answered 400 while the cache
\* holds an entry and another request is waiting for the origin
C15_Witness ==
    /\ cpReq[2].pc = "done"
    /\ cpReq[2].target = RelativeTarget
    /\ cpReq[2].resp.status = 400
    /\ cpReq[2].nMatch = 0
    /\ cpReq[1].pc = "awaitFetch"
    /\ cache[TargetA] # NoEntry

\* C16 (amended): the cache entry is selected by the URL the target string
\* parses to (its scheme in lower case), and by nothing else.  A response
\* tagged MISS or HIT is one the origin gave for the URL of the request's
\* own target; a lookup that finds an entry for that URL returns it, tagged
\* HIT, whatever the method and the headers of the request, so that it
\* carries what the origin gave for the headers of the request that filled
\* the entry.
ResourceOf(t) == Target(IF t.scheme = "HTTPS" THEN "https" ELSE t.scheme, t.rest)
CpLookupEnds(r) == cpReq[r].pc = "awaitMatch" /\ cpReq'[r].pc # "awaitMatch"
HubInit == Init /\ worker = "github"

HubNext ==
    \/ \E r \in ReqIds : GhStart(r)
    \/ \E r \in ReqIds : GhGraphQL(r)
    \/ \E r \in ReqIds : GhRest(r)
    \/ \E r \in ReqIds : GhFinish(r)

HubSpec == HubInit /\ [][HubNext]_vars

\* The Firestore proxy alone with usable credentials, two requests at a time,
\* the clock and the store: two POSTs may overlap and carry different
\* timestamps.
StoreBudget == Budget(2, 1, MaxDocs)

StoreInit ==
    /\ worker = "firestore"
    /\ env = Env(TRUE, "valid", FALSE)
    /\ budget = StoreBudget
    /\ now = 0
    /\ accessToken = NullTok
    /\ tokenExpiry = Num(0)
    /\ issued = 0
    /\ req = [r \in ReqIds |-> IdleReq]
    /\ guestbook = <<>>
    /\ comments = <<>>
    /\ ghReq = [r \in ReqIds |-> IdleGhReq]
    /\ cpReq = [r \in ReqIds |-> IdleCpReq]
    /\ cache = [t \in CacheKeys |-> NoEntry]

StoreNext ==
    \/ \E r \in ReqIds : Start(r)
    \/ \E r \in ReqIds : TokenRejected(r)
    \/ \E r \in ReqIds : TokenReply(r)
    \/ \E r \in ReqIds : RouteStep(r)
    \/ \E r \in ReqIds : StoreWrite(r)
    \/ \E r \in ReqIds : StoreList(r)
    \/ \E r \in ReqIds : Finish(r)
    \/ Tick

StoreSpec == StoreInit /\ [][StoreNext]_vars

\* The Firestore proxy in front of a guestbook that already holds records:
\* none, one less than a page, or a full page, each stored before the
\* instance was loaded (at time 0), one every TickMs. Requests come one at a
\* time.
Backlog(n) ==
    [i \in 1..n |-> Doc("guestbook", i, "Ana", "hi", (i - n - 2) * TickMs)]

Backlogs == {0, PageSize - 1, PageSize}

BacklogInit ==
    /\ worker = "firestore"
    /\ env = Env(TRUE, "valid", FALSE)
    /\ \E n \in Backlogs :
          /\ guestbook = Backlog(n)
          /\ budget = Budget(1, 1, n + MaxDocs)
    /\ now = 0
    /\ accessToken = NullTok
    /\ tokenExpiry = Num(0)
    /\ issued = 0
    /\ req = [r \in ReqIds |-> IdleReq]
    /\ comments = <<>>
    /\ ghReq = [r \in ReqIds |-> IdleGhReq]
    /\ cpReq = [r \in ReqIds |-> IdleCpReq]
    /\ cache = [t \in CacheKeys |-> NoEntry]

BacklogSpec == BacklogInit /\ [][StoreNext]_vars

\* formatFirestoreDoc alone, over documents as the store may hold them:
\* written by this worker or by any other client of the database. A
\* document has a resource name and may have no fields member at all; each
\* of the three fields may be missing, carry the type the worker writes, or
\* carry another type of the store (integerValue, nullValue, stringValue in
\* place of timestampValue).
NoField == [missing |-> TRUE]
NameValues ==
    {[stringValue |-> "Ana"], [stringValue |-> ""], [integerValue |-> "5"],
     [nullValue |-> "null"]}
MessageValues == {[stringValue |-> "hi"], [nullValue |-> "null"]}
TimestampValues ==
    {[timestampValue |-> 0 - TickMs], [stringValue |-> "yesterday"]}

\* the object with the members of rec that are present
ObjectOf(rec) == [k \in {m \in DOMAIN rec : rec[m] # NoField} |-> rec[k]]

FieldObjects ==
    {ObjectOf([name |-> n, message |-> m, timestamp |-> ts]) :
        n \in NameValues \cup {NoField}, m \in MessageValues \cup {NoField},
        ts \in TimestampValues \cup {NoField}}

\* resource names: .../documents/guestbook/{id} and
\* .../documents/comments/{postId}/{id}, and a bare id
DocNames == {<<"guestbook", 7>>, <<"comments", "p1", 8>>, <<9>>}

StoreDocuments ==
    {[name |-> nm] : nm \in DocNames}
        \cup {[name |-> nm, fields |-> f] : nm \in DocNames, f \in FieldObjects}

FormatInit ==
    /\ worker = "firestore"
    /\ env = Env(TRUE, "valid", FALSE)
    /\ budget = Budget(1, 0, 0)
    /\ now = 0
    /\ accessToken = NullTok
    /\ tokenExpiry = Num(0)
    /\ issued = 0
    /\ req = [r \in ReqIds |-> IdleReq]
    /\ \E doc \in StoreDocuments : guestbook = <<doc>>
    /\ comments = <<>>
    /\ ghReq = [r \in ReqIds |-> IdleGhReq]
    /\ cpReq = [r \in ReqIds |-> IdleCpReq]
    /\ cache = [t \in CacheKeys |-> NoEntry]

\* (data.documents || []).map(doc => formatFirestoreDoc(doc)) on the
\* document at hand, part_001:102; the result is kept as the list of a
\* response
FormatStep ==
    /\ req[1].pc = "idle"
    /\ req' = [req EXCEPT
                  ![1] = Done(@, CorsResp(200, "list", FormatAll(guestbook, now)))]
    /\ UNCHANGED <<worker, env, budget, now, accessToken, tokenExpiry, issued,
                   guestbook, comments, ghReq, cpReq, cache>>

FormatNext == FormatStep

FormatSpec == FormatInit /\ [][FormatNext]_vars

(***************************************************************************)
(* Properties of the guestbook and of the comments.                        *)
(***************************************************************************)
\* request r has been answered after the store answered its list call
ListAnswered(r) == req[r].pc = "done" /\ req[r].nList = 1
OnComments(r) == CommentMatch(req[r].path) # <<>>

\* C17: when the store answers 404 to the list call of GET /comments/{id}
\* the response is 200 with an empty array, and for the list call that
\* follows the write of POST /comments/{id} it is 201 with an empty array;
\* any other non-2xx answer to a list call, and a 404 for /messages, is
\* answered with an error response.
C17_EmptyScope ==
    \A r \in ReqIds :
        /\ (ListAnswered(r) /\ OnComments(r) /\ req[r].upstream = 404)
           => /\ req[r].resp.status
                    = IF req[r].method = "POST" THEN 201 ELSE 200
              /\ req[r].resp.body = "list"
              /\ req[r].resp.list = <<>>
        /\ (ListAnswered(r) /\ req[r].upstream \notin {200, 404})
           => req[r].resp.status >= 500 /\ req[r].resp.body = MsgGetFailed
        /\ (ListAnswered(r) /\ req[r].path = PMessages
               /\ req[r].upstream = 404)
           => req[r].resp.status >= 500 /\ req[r].resp.body = MsgGetFailed

\* GET /comments/p1 has been answered 200 with an empty array after the
\* store answered 404
C17_Witness ==
    \E r \in ReqIds :
        /\ ListAnswered(r)
        /\ req[r].method = "GET"
        /\ req[r].path = PCommentsP1
        /\ req[r].upstream = 404
        /\ req[r].resp = CorsResp(200, "list", <<>>)
        /\ comments = <<>>

\* the record a list shows for a stored document that has a timestamp
Shown(doc) ==
    [id |-> doc.name[2], name |-> doc.fields.name.stringValue,
     message |-> doc.fields.message.stringValue,
     timestamp |-> doc.fields.timestamp.timestampValue]

\* the document the store took last into the guestbook
LastWritten == guestbook[Len(guestbook)]

\* GET /messages has been answered with the list the store delivered
MessagesListed(r) ==
    /\ ListAnswered(r)
    /\ req[r].method = "GET"
    /\ req[r].path = PMessages
    /\ req[r].upstream = 200

\* the last written record is the first of every list of the guestbook
HeadIsLastWritten ==
    \A r \in ReqIds :
        (MessagesListed(r) /\ guestbook # <<>>)
            => /\ req[r].resp.list # <<>>
               /\ req[r].resp.list[1] = Shown(LastWritten)

\* the last written record carries a later timestamp than every other one
LastIsLatest ==
    \A i \in 1..(Len(guestbook) - 1) :
        guestbook[i].fields.timestamp.timestampValue
            < LastWritten.fields.timestamp.timestampValue

PostAnswered(r) ==
    /\ ListAnswered(r)
    /\ req[r].method = "POST"
    /\ req[r].nWrite = 1
    /\ req[r].upstream = 200
    /\ req[r].resp.status = 201

\* the collection or scope a request is about
ScopeOf(r) ==
    IF req[r].path = PMessages THEN guestbook
    ELSE IF OnComments(r) THEN comments ELSE <<>>

\* C19: a successful POST /messages or POST /comments/{postId} returns 201
\* with a body that holds every record of the collection or scope as it is
\* after the write, the new record included, however many records were
\* stored before.
C19_FullContents ==
    \A r \in ReqIds :
        PostAnswered(r)
            => /\ req[r].resp.body = "list"
               /\ Len(req[r].resp.list) = Len(ScopeOf(r))
               /\ \A i \in 1..Len(ScopeOf(r)) :
                    \E j \in 1..Len(req[r].resp.list) :
                        req[r].resp.list[j] = Shown(ScopeOf(r)[i])

\* GET request r has been answered with the list the store delivered
GetListed(r) ==
    /\ ListAnswered(r)
    /\ req[r].method = "GET"
    /\ req[r].upstream = 200

\* what the store delivered to request r
Delivered(r) ==
    Listing(IF req[r].path = PMessages THEN "guestbook" ELSE "comments")

\* C20: a GET /messages returns records in descending order of timestamp and
\* a GET /comments/{postId} in ascending order, whatever the store holds; the
\* list of the response is the list of documents the store delivered, record
\* for record and in the same order: every record of the response is a stored
\* one, none occurs twice, and none that the store delivered is missing.
C20_StoreOrderKept ==
    \A r \in ReqIds :
        GetListed(r)
            => LET list == req[r].resp.list
                   desc == req[r].path = PMessages
                   delivered == Delivered(r)
               IN  /\ req[r].resp.status = 200
                   /\ req[r].resp.body = "list"
                   /\ Len(list) = Len(delivered)
                   /\ \A i \in 1..Len(list) : list[i] = Shown(delivered[i])
                   /\ \A i \in 1..(Len(list) - 1) :
                        IF desc
                        THEN list[i].timestamp >= list[i + 1].timestamp
                        ELSE list[i].timestamp <= list[i + 1].timestamp
                   /\ \A i, j \in 1..Len(list) :
                        i # j => list[i].id # list[j].id
                   /\ \A i \in 1..Len(list) :
                        \E k \in 1..Len(ScopeOf(r)) :
                            list[i] = Shown(ScopeOf(r)[k])
                   /\ Len(list)
                        = IF desc /\ Len(guestbook) > PageSize
                          THEN PageSize ELSE Len(ScopeOf(r))

\* a GET /messages on a guestbook of more than a page of records has
\* returned a page in descending order, the record stored at time 0 first
C20_Witness ==
    \E r \in ReqIds :
        /\ GetListed(r)
        /\ req[r].path = PMessages
        /\ Len(guestbook) > PageSize
        /\ Len(req[r].resp.list) = PageSize
        /\ req[r].resp.list[1].timestamp > req[r].resp.list[2].timestamp
        /\ req[r].resp.list[1].timestamp = 0

(***************************************************************************)
(* Error handling.                                                         *)
(***************************************************************************)
\* the store has answered the last call of request r with a status that is
\* not 2xx and that the handler does not take for an empty scope
StoreFailed(r) ==
    /\ req[r].pc = "done"
    /\ req[r].upstream \notin {0, 200}
    /\ ~(req[r].upstream = 404 /\ req[r].nList = 1 /\ OnComments(r))

\* C21: when the store answers a list call or a write call of the Firestore
\* proxy with a status that is not 2xx (the 404 of an empty comments scope
\* apart), the client is answered 502.
C21_UpstreamFailureIs502 ==
    \A r \in ReqIds : StoreFailed(r) => req[r].resp.status = 502

\* request r of the GitHub proxy has been answered
GhAnswered(r) == ghReq[r].pc = "done"

\* C22: for endpoint=stats and endpoint=pinned, a username that the upstream
\* does not resolve (its reply has user = null) is answered 404.
C22_UnknownUserIs404 ==
    \A r \in ReqIds :
        (GhAnswered(r) /\ ghReq[r].reply.kind = "nouser")
            => ghReq[r].resp.status = 404

\* the upstream call of request r of the GitHub proxy has raised an
\* exception: the fetch rejected, or fetchGraphQL, fetchUserStats or
\* fetchPinnedRepos threw on the reply
GhThrew(r) ==
    /\ GhAnswered(r)
    /\ ghReq[r].reply.kind \in {"network", "non2xx", "errors", "nouser"}

\* the fetch of the origin by request r of the cache proxy has rejected
CpThrew(r) ==
    /\ cpReq[r].pc = "done"
    /\ cpReq[r].nFetch = 1
    /\ cpReq[r].put = NoEntry

\* C23: in the Firestore proxy, the GitHub proxy and the cache proxy, an
\* exception raised while a request is handled (a failed upstream fetch
\* included) is caught by the worker and answered with status 500 and a JSON
\* body {error: string}.
C23_ExceptionsAre500 ==
    \A r \in ReqIds :
        /\ StoreFailed(r)
            => /\ req[r].resp.status = 500
               /\ req[r].resp.body \in {MsgGetFailed, MsgPostFailed}
        /\ GhThrew(r) => ghReq[r].resp.status = 500
        /\ CpThrew(r)
            => /\ cpReq[r].resp.status = 500
               /\ cpReq[r].resp # CpUncaught

(***************************************************************************)
(* Secrets.                                                                *)
(***************************************************************************)
\* C24: no response of a worker contains the private key, the access token
\* of the Firestore proxy or the GITHUB_TOKEN of the GitHub proxy, whatever
\* the request and whatever the upstream replies, the error bodies of the
\* upstream that go into error messages included.
C24_NoSecretInResponses ==
    \A r \in ReqIds :
        /\ Answered(r) => ~Truthy(req[r].resp.quotes)
        /\ GhAnswered(r) => ghReq[r].resp.quotes # GhBearer

(***************************************************************************)
(* No retries.                                                             *)
(***************************************************************************)
\* the upstream calls request r has made so far, by kind
Calls(rq) == <<rq.nExch, rq.nWrite, rq.nList>>

\* C25: no request retries an upstream call.  A request of the Firestore
\* proxy makes at most one token exchange, a GET at most one list call and no
\* write, a POST at most one write and, after it, at most one list call; a
\* request of the GitHub proxy or of the cache proxy makes at most one fetch.
\* When an upstream call of a request fails (the exchange is rejected, the
\* store answers a write or a list with an error that is not the 404 of an
\* empty comments scope, the GitHub API does not deliver), the request ends
\* there, with an error status and without another call.
C25_NoRetry ==
    [][\A r \in ReqIds :
        /\ req'[r].nExch <= 1 /\ req'[r].nWrite <= 1 /\ req'[r].nList <= 1
        /\ ghReq'[r].nUp <= 1
        /\ cpReq'[r].nFetch <= 1
        /\ (req'[r].pc = "done" /\ req'[r].method = "GET")
            => req'[r].nWrite = 0
        /\ (req'[r].nList = 1 /\ req'[r].method = "POST")
            => req'[r].nWrite = 1
        /\ (req[r].pc = "awaitToken" /\ req'[r].pc \notin {"awaitToken",
                                                          "haveToken"})
            => /\ req'[r].pc = "done"
               /\ req'[r].resp.status >= 400
               /\ Calls(req'[r]) = Calls(req[r])
        /\ (req[r].pc = "awaitWrite" /\ req'[r].pc # "awaitWrite"
                /\ req'[r].upstream # 200)
            => /\ req'[r].pc = "done"
               /\ req'[r].resp.status >= 400
               /\ Calls(req'[r]) = Calls(req[r])
        /\ (req[r].pc = "awaitList" /\ req'[r].pc # "awaitList"
                /\ req'[r].upstream # 200
                /\ ~(req'[r].upstream = 404 /\ req[r].call.coll = "comments"))
            => /\ req'[r].pc = "done"
               /\ req'[r].resp.status >= 400
               /\ Calls(req'[r]) = Calls(req[r])
        /\ (ghReq[r].pc \in {"awaitGraphQL", "awaitRest"}
                /\ ghReq'[r].pc # ghReq[r].pc
                /\ ghReq'[r].reply.kind \in {"network", "non2xx", "errors",
                                             "nouser"})
            => /\ ghReq'[r].pc = "done"
               /\ ghReq'[r].resp.status >= 400
               /\ ghReq'[r].nUp = ghReq[r].nUp
        /\ (ghReq[r].pc = "awaitRest" /\ ghReq'[r].pc # ghReq[r].pc
                /\ ghReq'[r].reply.status >= 400)
            => /\ ghReq'[r].pc = "done"
               /\ ghReq'[r].resp.status >= 400
               /\ ghReq'[r].nUp = ghReq[r].nUp]_vars

\* a POST has been answered with an error after its write succeeded and its
\* list call failed: one exchange, one write, one list call
C25_Witness ==
    \E r \in ReqIds :
        /\ Answered(r)
        /\ req[r].method = "POST"
        /\ Calls(req[r]) = <<1, 1, 1>>
        /\ req[r].upstream = 500
        /\ req[r].resp.status = 500

(***************************************************************************)
(* Properties of the GitHub proxy.                                         *)
(***************************************************************************)
\* request r has passed the checks of handleRequest and was dispatched
GhAccepted(r) == ghReq[r].call.api # "none"

\* the upstream has delivered what the endpoint of request r needs
GhDelivered(r) ==
    /\ GhAnswered(r)
    /\ ghReq[r].reply.kind \in {"user", "rest"}

\* C26: a successful stats response carries Cache-Control s-maxage=43200, a
\* successful pinned response s-maxage=3600, and a passthrough response
\* (repos, events) s-maxage=3600.  The worker stores no copy: every accepted
\* request that is answered has made its own upstream call and is answered
\* from the reply to that call, and no request changes anything that
\* outlives it.
C26_CacheHeaders ==
    [][\A r \in ReqIds :
        /\ (GhDelivered(r)' /\ ghReq'[r].call.endpoint = "stats")
            => ghReq'[r].resp.status = 200 /\ ghReq'[r].resp.sMaxAge = 43200
        /\ (GhDelivered(r)' /\ ghReq'[r].call.endpoint = "pinned")
            => ghReq'[r].resp.status = 200 /\ ghReq'[r].resp.sMaxAge = 3600
        /\ (GhDelivered(r)' /\ ghReq'[r].call.api = "rest")
            => ghReq'[r].resp.sMaxAge = 3600
        /\ (GhAnswered(r)' /\ GhAccepted(r)')
            => ghReq'[r].nUp = 1 /\ ghReq'[r].reply # NoGhReply
        /\ (ghReq[r].pc = "idle" /\ GhAccepted(r)')
            => ghReq'[r].pc \in {"awaitGraphQL", "awaitRest"}
        /\ ghReq'[r] # ghReq[r] => UNCHANGED <<cache, guestbook, comments>>
       ]_vars

\* two stats requests are in the instance, one answered from its reply and
\* one waiting for the reply to its own call
C26_Witness ==
    \E r, q \in ReqIds :
        /\ GhDelivered(r)
        /\ ghReq[r].call.endpoint = "stats"
        /\ ghReq[r].resp.sMaxAge = 43200
        /\ ghReq[q].pc = "awaitGraphQL"
        /\ ghReq[q].call.endpoint = "stats"
        /\ ghReq[q].nUp = 1

\* C27: endpoint=stats makes exactly one upstream query per request; when
\* the upstream delivers the user, the response is 200 with exactly the five
\* fields publicRepos, followers, following, contributions and
\* repoContributions, each the corresponding count of the upstream reply,
\* and so none negative when no upstream count is.
C27_StatsAggregation ==
    \A r \in ReqIds :
        /\ (GhAnswered(r) /\ ghReq[r].call.endpoint = "stats")
            => /\ ghReq[r].nUp = 1
               /\ ghReq[r].call.api = "graphql"
        /\ (GhDelivered(r) /\ ghReq[r].call.endpoint = "stats")
            => LET user == ghReq[r].reply.user
                   stats == ghReq[r].resp.stats
               IN  /\ ghReq[r].resp.status = 200
                   /\ ghReq[r].resp.body = "stats"
                   /\ DOMAIN stats = {"publicRepos", "followers", "following",
                                      "contributions", "repoContributions"}
                   /\ stats.publicRepos = user.repositories
                   /\ stats.followers = user.followers
                   /\ stats.following = user.following
                   /\ stats.contributions = user.totalContributions
                   /\ stats.repoContributions = user.repositoriesContributedTo
                   /\ (\A f \in DOMAIN user : user[f] >= 0)
                        => \A f \in DOMAIN stats : stats[f] >= 0

\* a stats request has been answered with the five counts of a user with 3
\* repositories, 1 follower, 4 followed, 15 contributions and 9 repositories
\* contributed to
C27_Witness ==
    \E r \in ReqIds :
        /\ GhDelivered(r)
        /\ ghReq[r].call.endpoint = "stats"
        /\ ghReq[r].reply.user = UserStats(3, 1, 4, 15, 9)
        /\ ghReq[r].resp.stats
             = [publicRepos |-> 3, followers |-> 1, following |-> 4,
                contributions |-> 15, repoContributions |-> 9]

\* the pinned items the upstream listed for request r, and the summaries of
\* the response
PinnedDelivered(r) ==
    /\ GhDelivered(r)
    /\ ghReq[r].call.endpoint = "pinned"

\* C28: endpoint=pinned returns at most 6 repository summaries, one for each
\* pinned item of the upstream reply and in the order of the reply; a
\* repository without a primary language has language 'Text' and
\* languageColor '#ededed', the others the name and color of their language.
C28_PinnedSummaries ==
    \A r \in ReqIds :
        PinnedDelivered(r)
            => LET nodes == ghReq[r].reply.nodes
                   pinned == ghReq[r].resp.pinned
               IN  /\ ghReq[r].resp.status = 200
                   /\ ghReq[r].resp.body = "pinned"
                   /\ Len(pinned) <= 6
                   /\ Len(pinned) = Len(nodes)
                   /\ \A i \in 1..Len(nodes) :
                        /\ pinned[i].repo = nodes[i].name
                        /\ pinned[i].owner = nodes[i].owner
                        /\ pinned[i].link = nodes[i].url
                        /\ pinned[i].description = nodes[i].description
                        /\ pinned[i].stars = nodes[i].stars
                        /\ pinned[i].forks = nodes[i].forks
                        /\ pinned[i].language # "<null>"
                        /\ pinned[i].languageColor # "<null>"
                        /\ IF nodes[i].primaryLanguage = NoLang
                           THEN /\ pinned[i].language = "Text"
                                /\ pinned[i].languageColor = "#ededed"
                           ELSE /\ pinned[i].language
                                     = nodes[i].primaryLanguage.name
                                /\ pinned[i].languageColor
                                     = nodes[i].primaryLanguage.color

\* a pinned request has been answered with six summaries, the second of a
\* repository without a primary language
C28_Witness ==
    \E r \in ReqIds :
        /\ PinnedDelivered(r)
        /\ Len(ghReq[r].resp.pinned) = 6
        /\ ghReq[r].reply.nodes[2].primaryLanguage = NoLang
        /\ ghReq[r].resp.pinned[2].repo = 2
        /\ ghReq[r].resp.pinned[2].language = "Text"
        /\ ghReq[r].resp.pinned[1].language = "JavaScript"

\* C29: endpoint=repos and endpoint=events return the status and the body
\* of the reply of the REST API as they are, for every status, with the
\* upstream's other headers and with Access-Control-Allow-Origin and
\* Cache-Control set; the call to the REST API is a GET with the worker's
\* own Authorization, whatever the method and the headers of the inbound
\* request.
C29_Passthrough ==
    \A r \in ReqIds :
        /\ ghReq[r].call.api = "rest"
            => /\ ghReq[r].call.method = "GET"
               /\ ghReq[r].call.auth = "bearer GITHUB_TOKEN"
               /\ ghReq[r].call.endpoint \in {"repos", "events"}
               /\ ghReq[r].call.endpoint = ghReq[r].endpoint
        /\ (GhAnswered(r) /\ ghReq[r].reply.kind = "rest")
            => /\ ghReq[r].call.api = "rest"
               /\ ghReq[r].resp.status = ghReq[r].reply.status
               /\ ghReq[r].resp.body = ghReq[r].reply.text
               /\ ghReq[r].resp.quotes = ghReq[r].reply.quotes
               /\ ghReq[r].resp.link = ghReq[r].reply.link
               /\ ghReq[r].resp.cors
               /\ ghReq[r].resp.sMaxAge = 3600
               /\ ghReq[r].resp.stats = NoStats
               /\ ghReq[r].resp.pinned = <<>>

\* an OPTIONS request with an Authorization header of its own for
\* endpoint=events has been answered with the 403 of the REST API
C29_Witness ==
    \E r \in ReqIds :
        /\ GhAnswered(r)
        /\ ghReq[r].method = "OPTIONS"
        /\ ghReq[r].hdr = "bearer client"
        /\ ghReq[r].endpoint = "events"
        /\ ghReq[r].call.method = "GET"
        /\ ghReq[r].reply.status = 403
        /\ ghReq[r].resp.status = 403
        /\ ghReq[r].resp.body = "rate limit exceeded"

\* request r of the GitHub proxy has been rejected with this status before
\* any upstream call
GhRejected(r, status) ==
    /\ ghReq[r].pc = "done"
    /\ ghReq[r].resp.status = status
    /\ ghReq[r].nUp = 0
    /\ ghReq[r].call = NoGhCall
    /\ ghReq[r].reply = NoGhReply

\* C30: handleRequest checks, in this order, that GITHUB_TOKEN is configured
\* (else 500), that a username is given (else 400) and that the endpoint is
\* one it knows (else 400), and none of these rejections makes an upstream
\* call; a request without an endpoint parameter is handled as
\* endpoint=pinned; an accepted request goes to exactly one of stats, pinned,
\* repos and events, with one call to the API of that endpoint.
C30_CheckOrder ==
    \A r \in ReqIds :
        ghReq[r].pc # "idle"
            => LET u == ghReq[r].username
                   e == ghReq[r].endpoint
                   given == u \notin {"<undefined>", ""}
                   named == e \notin {"<undefined>", ""}
                   known == e \in {"stats", "pinned", "repos", "events"}
               IN  /\ ~env.GITHUB_TOKEN => GhRejected(r, 500)
                   /\ (env.GITHUB_TOKEN /\ ~given) => GhRejected(r, 400)
                   /\ (env.GITHUB_TOKEN /\ given /\ named /\ ~known)
                        => GhRejected(r, 400)
                   /\ (env.GITHUB_TOKEN /\ given /\ ~named)
                        => /\ GhAccepted(r)
                           /\ ghReq[r].call.endpoint = "pinned"
                   /\ (env.GITHUB_TOKEN /\ given /\ known)
                        => /\ GhAccepted(r)
                           /\ ghReq[r].call.endpoint = e
                   /\ GhAccepted(r)
                        => /\ ghReq[r].nUp = 1
                           /\ ghReq[r].call.api
                                = IF ghReq[r].call.endpoint
                                        \in {"stats", "pinned"}
                                  THEN "graphql" ELSE "rest"
                           /\ ghReq[r].call.endpoint
                                \in {"stats", "pinned", "repos", "events"}

\* without the secret, a request that has neither a username nor a known
\* endpoint has been answered 500
C30_Witness ==
    \E r \in ReqIds :
        /\ ~env.GITHUB_TOKEN
        /\ ghReq[r].username = "<undefined>"
        /\ ghReq[r].endpoint = "bogus"
        /\ GhRejected(r, 500)

(***************************************************************************)
(* C31: formatFirestoreDoc maps a store document to a flat record.          *)
(***************************************************************************)
\* the document handed to formatFirestoreDoc and the record it returned
Formatted == req[1].pc = "done" /\ Len(req[1].resp.list) = 1

\* the document has the named field
HasField(doc, key) == "fields" \in DOMAIN doc /\ key \in DOMAIN doc.fields

\* C31 (as stated): formatFirestoreDoc maps every store document to a flat
\* record {id, name, message, timestamp}; id is the last segment of the
\* document's name; name is the sentinel and message is "" when the field
\* is missing; and no field of the returned record is null or undefined.
C31_FlatRecord ==
    Formatted =>
        LET doc == guestbook[1]
            rec == req[1].resp.list[1]
        IN  /\ DOMAIN rec = {"id", "name", "message", "timestamp"}
            /\ rec.id = doc.name[Len(doc.name)]
            /\ ~HasField(doc, "name") => rec.name = "anonymous"
            /\ ~HasField(doc, "message") => rec.message = ""
            /\ rec.name # "<undefined>"
            /\ rec.message # "<undefined>"
            /\ rec.timestamp # 0 - 1

\* C31 (the part that holds): the same without the last three lines, and
\* with them for the documents whose name and message, where present, are
\* stringValue and whose timestamp, where present, is timestampValue.
C31_FlatRecordOfWorkerTypes ==
    Formatted =>
        LET doc == guestbook[1]
            rec == req[1].resp.list[1]
            typed(key, type) ==
                HasField(doc, key) => type \in DOMAIN doc.fields[key]
        IN  /\ DOMAIN rec = {"id", "name", "message", "timestamp"}
            /\ rec.id = doc.name[Len(doc.name)]
            /\ ~HasField(doc, "name") => rec.name = "anonymous"
            /\ ~HasField(doc, "message") => rec.message = ""
            /\ ~HasField(doc, "timestamp") => rec.timestamp = now
            /\ (typed("name", "stringValue") /\ typed("message", "stringValue")
                    /\ typed("timestamp", "timestampValue"))
                 => /\ rec.name # "<undefined>"
                    /\ rec.message # "<undefined>"
                    /\ rec.timestamp # 0 - 1

\* a document without fields has been formatted
C31_Witness ==
    /\ Formatted
    /\ "fields" \notin DOMAIN guestbook[1]
    /\ req[1].resp.list[1].name = "anonymous"

(***************************************************************************)
(* C32: a POST that is answered with a failure has stored nothing.         *)
(***************************************************************************)
\* the write call of the POST of request r has stored its record: the
\* handler goes on to the list call only then (part_001:118-120, 156-158)
WroteRecord(r) == req[r].method = "POST" /\ req[r].pc = "awaitList"

\* C32 (as stated): for POST /messages and POST /comments/{postId}, a
\* response with a status other than 201 implies that the request created
\* no record in the document store. (A POST reaches its list call exactly by
\* the step in which the store takes its record.)
C32_FailureStoresNothing ==
    [][\A r \in ReqIds :
          /\ (req[r].pc = "awaitWrite" /\ req'[r].pc # "awaitWrite")
                => (req'[r].pc = "awaitList"
                      <=> Len(guestbook') + Len(comments')
                            = Len(guestbook) + Len(comments) + 1)
          /\ (req[r].method = "POST" /\ req[r].pc # "done"
                 /\ req'[r].pc = "done" /\ req'[r].resp.status # 201)
                => ~WroteRecord(r) /\ storeVars' = storeVars]_vars

\* C32 (what holds): a POST that is answered with a failure before or by its
\* write call has stored nothing; one that fails after its write has stored
\* exactly one record and is answered 500.
C32_FailureAfterWriteIs500 ==
    [][\A r \in ReqIds :
          (req[r].method = "POST" /\ req[r].pc # "done"
             /\ req'[r].pc = "done" /\ req'[r].resp.status # 201)
            => /\ storeVars' = storeVars
               /\ WroteRecord(r) => req'[r].resp.status = 500]_vars

(***************************************************************************)
(* C33: overlapping requests of the cache proxy for one target.            *)
(***************************************************************************)
\* request r takes a step in which its lookup finds nothing / an entry
CpLookupMisses(r) ==
    /\ cpReq[r].pc = "awaitMatch" /\ cpReq'[r] # cpReq[r]
    /\ cache[Url(cpReq[r].target)].status = 0
CpLookupHits(r) ==
    /\ cpReq[r].pc = "awaitMatch" /\ cpReq'[r] # cpReq[r]
    /\ cache[Url(cpReq[r].target)].status # 0
\* the origin answers the fetch of request r in this step
CpOriginAnswers(r) ==
    /\ cpReq[r].pc = "awaitFetch" /\ cpReq'[r].pc = "done"
    /\ cpReq'[r].resp.cors
\* the cache.put of request r settles in this step
CpPutSettles(r) == cpReq[r].pc = "background" /\ cpReq'[r].pc = "idle"

\* the steps of a request up to its cache.put, whatever other requests are
\* doing: a lookup that finds nothing goes to the origin, the answer of the
\* origin is returned tagged MISS and handed to cache.put, and a lookup that
\* finds an entry returns it tagged HIT although it was stored tagged MISS
CpUncoordinated(r) ==
    /\ CpLookupMisses(r)
          => cpReq'[r].pc = "awaitFetch" /\ cpReq'[r].nFetch = 1
    /\ CpOriginAnswers(r)
          => /\ cpReq'[r].resp.tag = "MISS"
             /\ cpReq'[r].put = cpReq'[r].resp
             /\ cpReq'[r].nPut = 1
    /\ CpLookupHits(r)
          => /\ cache[Url(cpReq[r].target)].tag = "MISS"
             /\ cpReq'[r].pc = "done"
             /\ cpReq'[r].resp.tag = "HIT"
             /\ cpReq'[r].nFetch = 0 /\ cpReq'[r].nPut = 0
             /\ [cpReq'[r].resp EXCEPT !.tag = "MISS"]
                   = cache[Url(cpReq[r].target)]

\* C33 (as stated): two overlapping requests for the same uncached target
\* both report MISS, both fetch the origin and both write the cache; the
\* entry afterwards is exactly the response of the later write, never a
\* mixture of both; and a response served from the cache is always tagged
\* HIT, although the stored copy was tagged MISS.
C33_LaterWriteWins ==
    [][\A r \in ReqIds :
          /\ CpUncoordinated(r)
          /\ CpPutSettles(r)
                => /\ cache'[Url(cpReq[r].target)] = cpReq[r].put
                   /\ \A k \in CacheKeys \ {Url(cpReq[r].target)} :
                         cache'[k] = cache[k]]_vars

\* C33 (what holds): the same, with the entry replaced as a whole by the
\* response of each write that the cache accepts, and left as it was by a
\* write of a partial response (status 206), which the cache rejects.
C33_LaterAcceptedWriteWins ==
    [][\A r \in ReqIds :
          /\ CpUncoordinated(r)
          /\ CpPutSettles(r)
                => /\ cache'[Url(cpReq[r].target)]
                         = IF cpReq[r].put.status # 206 THEN cpReq[r].put
                           ELSE cache[Url(cpReq[r].target)]
                   /\ \A k \in CacheKeys \ {Url(cpReq[r].target)} :
                         cache'[k] = cache[k]]_vars

\* two requests for one uncached target overlap: both were answered MISS
\* with different responses of the origin and both writes are pending
C33_Overlap ==
    /\ cpReq[1].pc = "background" /\ cpReq[2].pc = "background"
    /\ Url(cpReq[1].target) = Url(cpReq[2].target)
    /\ cache[Url(cpReq[1].target)].status = 0
    /\ cpReq[1].put.tag = "MISS" /\ cpReq[2].put.tag = "MISS"
    /\ cpReq[1].put.body # cpReq[2].put.body

(***************************************************************************)
(* C34: error responses of the origin in the cache.                        *)
(***************************************************************************)
\* what the cache proxy does with the status of an origin response up to
\* cache.put and on a later hit: the response is returned and handed to
\* cache.put with the status and body the origin gave, whatever they are,
\* and an entry is served tagged HIT with its status and body, without a
\* new fetch, as long as the cache holds it
CpStatusBlind(r) ==
    /\ CpOriginAnswers(r)
          => /\ cpReq'[r].resp.status \in {200, 206, 404, 503}
             /\ cpReq'[r].put.status = cpReq'[r].resp.status
             /\ cpReq'[r].put.body = cpReq'[r].resp.body
    /\ CpLookupHits(r)
          => /\ cpReq'[r].resp.tag = "HIT"
             /\ cpReq'[r].resp.status = cache[Url(cpReq[r].target)].status
             /\ cpReq'[r].resp.body = cache[Url(cpReq[r].target)].body
             /\ cpReq'[r].nFetch = 0

\* C34 (as stated): on a miss the origin's response is written to the cache
\* whatever its status code, so an origin error response (4xx or 5xx) is
\* served as a HIT to later requests for the same target until the entry
\* expires.
C34_EveryStatusStored ==
    [][\A r \in ReqIds :
          /\ CpStatusBlind(r)
          /\ CpPutSettles(r)
                => /\ cache'[Url(cpReq[r].target)].status = cpReq[r].put.status
                   /\ cache'[Url(cpReq[r].target)].body = cpReq[r].put.body]_vars

\* C34 (what holds): the same for every status but 206; in particular the
\* error responses (status 400 and above) are stored and served as HIT.
C34_ErrorStatusStored ==
    [][\A r \in ReqIds :
          /\ CpStatusBlind(r)
          /\ (CpPutSettles(r) /\ cpReq[r].put.status # 206)
                => /\ cache'[Url(cpReq[r].target)].status = cpReq[r].put.status
                   /\ cache'[Url(cpReq[r].target)].body = cpReq[r].put.body
          /\ (CpPutSettles(r) /\ cpReq[r].put.status = 206)
                => cache' = cache]_vars

\* an error response of the origin has been served from the cache
C34_ErrorServed ==
    \E r \in ReqIds :
        /\ cpReq[r].pc = "done"
        /\ cpReq[r].resp.tag = "HIT"
        /\ cpReq[r].resp.status >= 400
        /\ cpReq[r].nFetch = 0

(***************************************************************************)
(* C35: what getAccessToken returns.                                       *)
(***************************************************************************)
\* a call of getAccessToken by request r returns in this step, from the
\* cache (part_001:215-217) or after an exchange (part_001:241-246)
MinterReturns(r) == req[r].pc # "haveToken" /\ req'[r].pc = "haveToken"

\* C35 (as stated): whenever getAccessToken returns without throwing, the
\* value returned is a non-empty token string equal to the cached
\* accessToken and tokenExpiry is a finite timestamp, also when the
\* authorization server answers 2xx with a body that lacks access_token or
\* expires_in.
C35_ReturnsUsableToken ==
    [][\A r \in ReqIds :
          MinterReturns(r)
            => /\ req'[r].token.kind = "string"
               /\ req'[r].token = accessToken'
               /\ ~tokenExpiry'.nan]_vars

\* C35 (what holds): the value returned is the cached accessToken; a return
\* from the cache gives a token string and leaves a finite tokenExpiry that
\* has not passed; a return after an exchange gives whatever the 2xx body
\* held as access_token.
C35_ReturnsCachedValue ==
    [][\A r \in ReqIds :
          MinterReturns(r)
            => /\ req'[r].token = accessToken'
               /\ req[r].pc = "idle"
                     => /\ req'[r].token.kind = "string"
                        /\ ~tokenExpiry'.nan /\ now < tokenExpiry'.v
                        /\ UNCHANGED <<accessToken, tokenExpiry>>
               /\ req[r].pc # "idle" => req[r].pc = "awaitToken"]_vars

\* getAccessToken has returned undefined to a request and left NaN as
\* tokenExpiry
C35_UndefinedReturned ==
    \E r \in ReqIds :
        /\ req[r].pc = "haveToken"
        /\ req[r].token.kind = "undefined"
        /\ accessToken.kind = "undefined"
        /\ tokenExpiry.nan
====
